---- MODULE Spec2Model ----
(***************************************************************************)
(* wkagent: the sub-agent execution core of src/sub-agent.js.              *)
(*                                                                         *)
(* SubAgent        one task unit: execute() runs decompose -> executeSteps *)
(*                 -> summarize; abort() sets the AbortController signal.  *)
(* SubAgentManager the bounded pool: createSubAgent, executeConcurrent,    *)
(*                 abortAll, and the listeners that release a slot.        *)
(*                                                                         *)
(* JavaScript runs one callback at a time, so an action of this module is  *)
(* one synchronous segment of the code: from a call or the resumption of   *)
(* an await up to the next await.  The source's string literals are        *)
(* Chinese; the module writes each text as an ASCII gloss and gives, in    *)
(* Keywords, the substrings the code's includes() tests find in it.        *)
(***************************************************************************)
EXTENDS Integers, Sequences, FiniteSets, TLC

(* ------------------------------ bounds -------------------------------- *)
\* largest maxSubAgents a manager is configured with
MaxCeiling == 2
\* SubAgent instances constructed in one behaviour
MaxUnits == 3
\* abort() calls made on units, abortAll() counting one per unit it reaches
MaxAborts == 2
\* execute() calls made by the caller of createSubAgent
MaxExecutes == 2
\* longest task list handed to executeConcurrent
MaxBatch == 2
\* abort() and execute() calls on the single unit of SpecUnit
UnitAborts == 2
UnitExecutes == 2
\* abort() calls while the batch of SpecBatch runs
BatchAborts == 1
\* abort() calls on the units of SpecPool
PoolAborts == 1
\* calls a caller makes on one EnhancedAgentMemory: addMessage, a loop of
\* addMessage, compressMemory
MaxCalls == 4
\* appends of a parent agent to its own memory while its batch runs
ParentCalls == 2

Min(a, b) == IF a <= b THEN a ELSE b
Max(a, b) == IF a >= b THEN a ELSE b
Range(s) == {s[j] : j \in 1..Len(s)}

(* ------------------------------- texts -------------------------------- *)
\* task texts handed in by callers
\* test-sub-agent.js:95   a task that contains the "search" keyword
TSearch == "search lines containing 'class'"
\* test-sub-agent.js:296  read + file + .txt
TRead == "read missing file nonexistent.txt"
\* test-sub-agent.js:138  file + .js, no verb the tool selector knows
TScan == "scan all .js files"
\* test-sub-agent.js:171  a task that contains the "refactor" keyword
TRefactor == "refactor project code structure"
\* sub-agent.js:152       a task that contains "analyze project"
TAnalyze == "analyze project layout"

\* The keywords (sub-agent.js:152-163, 247-253, 266-280) that
\* text.toLowerCase().includes(...) finds in each text of the model.
Keywords(text) ==
  CASE text = TSearch -> {"search"}
    [] text = TRead -> {"read", "file", ".txt"}
    [] text = TScan -> {"file", ".js"}
    [] text = TRefactor -> {"refactor"}
    [] text = TAnalyze -> {"analyze project"}
    [] text = "scan project structure" -> {}
    [] text = "identify file types" -> {"file"}
    [] text = "count lines of code" -> {}
    [] text = "generate analysis report" -> {}
    [] text = "analyze existing code" -> {}
    [] text = "identify refactoring points" -> {"refactor"}
    [] text = "create backup" -> {"create"}
    [] text = "execute refactoring" -> {"execute", "refactor"}
    [] text = "verify result" -> {}
    [] text = "determine search pattern" -> {"search"}
    [] text = "execute file search" -> {"execute", "file", "search"}
    [] text = "collate results" -> {}
    [] OTHER -> {}

Includes(text, kws) == Keywords(text) \cap kws # {}

\* SubAgent.constructor, lines 26-38: this.config, of which maxConcurrency
\* is parentConfig.maxConcurrency || 5 and llm.enableLLM is
\* parentConfig.llm?.enableLLM || false, while timeout and sandbox are
\* literals (0 stands for a key the parent config does not set)
subAgentConfig(parent) ==
  [maxConcurrency |-> IF parent.maxConcurrency = 0 THEN 5
                      ELSE parent.maxConcurrency,
   enableLLM |-> parent.enableLLM,
   timeout |-> 30000,
   sandbox |-> TRUE]

\* SubAgent.ruleBasedDecomposition
ruleBasedDecomposition(task) ==
  IF Includes(task, {"analyze project"})
  THEN <<"scan project structure", "identify file types",
         "count lines of code", "generate analysis report">>
  ELSE IF Includes(task, {"refactor"})
  THEN <<"analyze existing code", "identify refactoring points",
         "create backup", "execute refactoring", "verify result">>
  ELSE IF Includes(task, {"search"})
  THEN <<"determine search pattern", "execute file search", "collate results">>
  ELSE <<task>>

\* SubAgent.decomposeTask with llmService = null (config.llm.enableLLM false,
\* the constructor's default): the rule-based decomposition.
decomposeTask(task) == ruleBasedDecomposition(task)

\* what the analyzer's call can do: answer a JSON object that lists steps,
\* one without steps, the JSON text null, or fail (the request is rejected,
\* the API answers an error status, or the answer is not JSON)
AnalyzerOutcomes == {"steps", "noSteps", "null", "fails"}

\* the steps an answer of the analyzer lists
LLMSteps == <<"execute file search", "verify result">>

\* LLMService.understandTask: JSON.parse of the answer; a failure of the
\* call or of the parse is caught here and answered with a default analysis
\* whose steps are [task]
understandTask(task, outcome) ==
  CASE outcome = "steps" -> [isNull |-> FALSE, hasSteps |-> TRUE, steps |-> LLMSteps]
    [] outcome = "noSteps" -> [isNull |-> FALSE, hasSteps |-> FALSE, steps |-> <<>>]
    [] outcome = "null" -> [isNull |-> TRUE, hasSteps |-> FALSE, steps |-> <<>>]
    [] outcome = "fails" -> [isNull |-> FALSE, hasSteps |-> TRUE, steps |-> <<task>>]

\* SubAgent.decomposeTask with an llmService: analysis.steps || [task]; the
\* TypeError of reading null.steps is caught and the rule-based
\* decomposition is used
decomposeTaskLLM(task, outcome) ==
  LET analysis == understandTask(task, outcome) IN
  IF analysis.isNull THEN ruleBasedDecomposition(task)
  ELSE IF analysis.hasSteps THEN analysis.steps
  ELSE <<task>>

\* a selector that knows the task tool
selectToolForStepTask(step) == "task"

\* SubAgent.selectToolForStep: the first matching keyword pair wins
selectToolForStep(step) ==
  IF Includes(step, {"read", "view"}) THEN "read"
  ELSE IF Includes(step, {"create", "write"}) THEN "write"
  ELSE IF Includes(step, {"edit", "modify"}) THEN "edit"
  ELSE IF Includes(step, {"search", "find"}) THEN "grep"
  ELSE IF Includes(step, {"execute", "run"}) THEN "bash"
  ELSE IF Includes(step, {"match", "glob"}) THEN "glob"
  ELSE "bash"

\* SubAgent.parseStepParams: the keys it sets.  Every value it assigns is a
\* non-empty string (a regex match or the defaults "./output.txt",
\* "function", "ls"), so a key that is present is truthy.
parseStepParams(step) ==
  (IF Includes(step, {"file", ".txt", ".js"}) THEN {"path"} ELSE {})
  \cup (IF Includes(step, {"search", "find"}) THEN {"pattern"} ELSE {})
  \cup (IF Includes(step, {"execute", "run"}) THEN {"command"} ELSE {})

\* ToolRegistry.initializeDefaultTools: the registered names
ToolNames == {"read", "write", "edit", "bash", "glob", "grep"}

\* ToolRegistry.initializeDefaultTools: the schema keys with required: true
RequiredParams(tool) ==
  CASE tool = "read" -> {"path"}
    [] tool = "write" -> {"path", "content"}
    [] tool = "edit" -> {"path", "oldString", "newString"}
    [] tool = "bash" -> {"command"}
    [] tool = "glob" -> {"pattern"}
    [] tool = "grep" -> {"pattern"}
    [] OTHER -> {}

\* ToolRegistry.validateParams
validateParams(tool, params) ==
  IF tool \notin ToolNames THEN [valid |-> FALSE, error |-> "no such tool"]
  ELSE IF RequiredParams(tool) \ params # {}
  THEN [valid |-> FALSE, error |-> "missing required parameter"]
  ELSE [valid |-> TRUE, error |-> "none"]

\* what a tool's execute(params) promise can do: resolve {success: true},
\* resolve {success: false, error}, or reject
ToolOutcomes == {"ok", "failed", "throws"}

NoStep == [stepNumber |-> 0]

\* an executeStep without its catch: a rejecting tool's exception leaves it
executeStepUncaught(step, stepNumber, totalSteps, outcome) ==
  IF outcome = "throws" THEN [kind |-> "escaped"]
  ELSE [kind |-> "returned", stepNumber |-> stepNumber, totalSteps |-> totalSteps,
        step |-> step, tool |-> selectToolForStep(step),
        success |-> (outcome = "ok"), error |-> "none"]

\* SubAgent.executeStep, after the tool's promise settled: the step result of
\* the try branch (lines 218-227) or of the catch branch (lines 229-237).
\* kind "escaped" marks an exception that leaves executeStep.
executeStepSettled(step, stepNumber, totalSteps, outcome) ==
  IF outcome = "throws"
  THEN [kind |-> "returned", stepNumber |-> stepNumber, totalSteps |-> totalSteps,
        step |-> step, tool |-> selectToolForStep(step),
        success |-> FALSE, error |-> "tool threw"]
  ELSE [kind |-> "returned", stepNumber |-> stepNumber, totalSteps |-> totalSteps,
        step |-> step, tool |-> selectToolForStep(step),
        success |-> (outcome = "ok"), error |-> "none"]

\* an executeStep that calls the tool without validating the params
executeStepBeginUnvalidated(step, stepNumber, totalSteps) ==
  [kind |-> "dispatched", stepNumber |-> stepNumber]

\* SubAgent.executeStep up to its await: select the tool, parse and validate
\* the params; a failed validation throws inside the try and is returned as a
\* failed step result, otherwise toolDef.execute(params) is called.
executeStepBegin(step, stepNumber, totalSteps) ==
  IF validateParams(selectToolForStep(step), parseStepParams(step)).valid
  THEN [kind |-> "dispatched", stepNumber |-> stepNumber]
  ELSE [kind |-> "returned", stepNumber |-> stepNumber, totalSteps |-> totalSteps,
        step |-> step, tool |-> selectToolForStep(step),
        success |-> FALSE, error |-> "validation"]

\* SubAgent.summarizeResults without llmService: the counts of the summary
summarizeResults(results) ==
  [total |-> Len(results),
   successful |-> Cardinality({j \in 1..Len(results) : results[j].success}),
   failed |-> Cardinality({j \in 1..Len(results) : ~results[j].success})]

\* EnhancedAgentMemory.compressionConfig.messageThreshold
messageThreshold == 100
\* EnhancedAgentMemory.compressMemory: shortTerm.slice(-20)
retentionWindow == 20

\* AgentMemory.addToShortTerm -> EnhancedAgentMemory.addMessage for a step
\* record {type: "sub_step", step, result, timestamp}: it has no content, so
\* its tokenCount is 0 and only the message count can trigger compressMemory.
addToShortTerm(shortTerm, message) ==
  LET pushed == Append(shortTerm, message) IN
  IF Len(pushed) > messageThreshold
  THEN SubSeq(pushed, Len(pushed) - retentionWindow + 1, Len(pushed))
  ELSE pushed

(* ------------------------ EnhancedAgentMemory ------------------------- *)
\* A message's content is modelled by the number of pieces that
\* content.split(/\s+/) yields: 0 stands for a missing or empty content, a
\* text without white space has 1, and -1 stands for a content that is
\* neither falsy nor a string (a number, an object).  Date.now() is a clock that the caller's
\* calls advance by one; a message's id is its time of insertion.

\* compressionConfig.tokenThreshold: 4000 * 0.92
tokenThreshold == 3680
\* cleanupOldMessages: 24 * 60 * 60 * 1000
dayMs == 86400000
\* the roles addMessage files under llmMessages and messagesByRole
LLMRoles == {"user", "assistant", "system", "tool"}

\* estimateTokens: 0 for no text, else Math.ceil(words * 1.33)
estimateTokens(content) ==
  IF content = 0 THEN 0 ELSE (content * 133 + 99) \div 100

\* estimateTokens of a truthy value without a split method: text.split is
\* not a function, a TypeError
estimateTokensThrows(content) == content < 0

\* the sum of (msg.tokenCount || 0) over a list of messages
RECURSIVE SumTokens(_)
SumTokens(messages) ==
  IF messages = <<>> THEN 0
  ELSE Head(messages).tokenCount + SumTokens(Tail(messages))

\* new EnhancedAgentMemory(), at time 0; longTerm is an object, modelled by
\* the set of its keys
FreshMemory ==
  [shortTerm |-> <<>>, mediumTerm |-> <<>>, longTerm |-> {},
   llmMessages |-> <<>>,
   messagesByRole |-> [r \in LLMRoles |-> <<>>],
   contextStats |-> [totalTokens |-> 0, userMessages |-> 0,
                     assistantMessages |-> 0, toolCalls |-> 0,
                     compressionCount |-> 0, sessionStart |-> 0,
                     lastCompressTime |-> 0]]

\* new EnhancedAgentMemory() at a later time: sessionStart and
\* lastCompressTime are Date.now()
newEnhancedAgentMemory(now) ==
  [FreshMemory EXCEPT !.contextStats.sessionStart = now,
                      !.contextStats.lastCompressTime = now]

\* updateContextStats(message)
updateContextStats(stats, message) ==
  [stats EXCEPT
     !.totalTokens = @ + message.tokenCount,
     !.userMessages = IF message.role = "user" THEN @ + 1 ELSE @,
     !.assistantMessages = IF message.role = "assistant" THEN @ + 1 ELSE @,
     !.toolCalls = IF message.role = "tool" THEN @ + 1 ELSE @]

\* a trigger that needs both conditions
shouldCompressBoth(m) ==
  /\ m.contextStats.totalTokens > tokenThreshold
  /\ Len(m.shortTerm) > messageThreshold

\* a trigger that fires on reaching the message threshold
shouldCompressAtThreshold(m) ==
  \/ m.contextStats.totalTokens > tokenThreshold
  \/ Len(m.shortTerm) >= messageThreshold

\* shouldCompress()
shouldCompress(m) ==
  \/ m.contextStats.totalTokens > tokenThreshold
  \/ Len(m.shortTerm) > messageThreshold

\* a slice that keeps the first n elements
sliceFirst(seq, n) ==
  IF Len(seq) <= n THEN seq ELSE SubSeq(seq, 1, n)

\* Array.prototype.slice(-n): the last n elements, all of them if fewer
sliceLast(seq, n) ==
  IF Len(seq) <= n THEN seq ELSE SubSeq(seq, Len(seq) - n + 1, Len(seq))

\* cleanupOldMessages(): messagesByRole keeps the messages of the last 24 h
cleanupOldMessages(byRole, now) ==
  [r \in LLMRoles |-> SelectSeq(byRole[r], LAMBDA msg : msg.timestamp > now - dayMs)]

\* generateStructuredSummary(): of the summary, the metadata that counts the
\* messages and tokens it was made from (the eight sections are text)
generateStructuredSummary(m, now) ==
  [originalCount |-> Len(m.shortTerm),
   savedTokens |-> m.contextStats.totalTokens,
   compressionTime |-> now]

\* a compression that leaves the running total as it was
compressMemoryKeepsTotal(m, now) ==
  [m EXCEPT
     !.mediumTerm = Append(@, [type |-> "structured_compression",
                               summary |-> generateStructuredSummary(m, now),
                               timestamp |-> now,
                               originalCount |-> Len(m.shortTerm),
                               originalTokens |-> m.contextStats.totalTokens]),
     !.shortTerm = sliceLast(@, retentionWindow),
     !.messagesByRole = cleanupOldMessages(@, now),
     !.contextStats = [@ EXCEPT !.compressionCount = @ + 1,
                                !.lastCompressTime = now]]

\* a compression that summarizes and keeps every message
compressMemoryKeepsAll(m, now) ==
  [m EXCEPT
     !.mediumTerm = Append(@, [type |-> "structured_compression",
                               summary |-> generateStructuredSummary(m, now),
                               timestamp |-> now,
                               originalCount |-> Len(m.shortTerm),
                               originalTokens |-> m.contextStats.totalTokens]),
     !.messagesByRole = cleanupOldMessages(@, now),
     !.contextStats = [@ EXCEPT !.compressionCount = @ + 1,
                                !.lastCompressTime = now]]

\* a compression that keeps only its own summary in mediumTerm
compressMemoryLatestOnly(m, now) ==
  LET kept == sliceLast(m.shortTerm, retentionWindow) IN
  [m EXCEPT
     !.mediumTerm = <<[type |-> "structured_compression",
                       summary |-> generateStructuredSummary(m, now),
                       timestamp |-> now,
                       originalCount |-> Len(m.shortTerm),
                       originalTokens |-> m.contextStats.totalTokens]>>,
     !.shortTerm = kept,
     !.messagesByRole = cleanupOldMessages(@, now),
     !.contextStats = [@ EXCEPT !.compressionCount = @ + 1,
                                !.lastCompressTime = now,
                                !.totalTokens = SumTokens(kept)]]

\* a compression that truncates first and summarizes what is left
compressMemorySummarizesKept(m, now) ==
  LET kept == sliceLast(m.shortTerm, retentionWindow)
      cut == [m EXCEPT !.shortTerm = kept,
                       !.contextStats = [@ EXCEPT !.totalTokens = SumTokens(kept)]]
  IN
  [m EXCEPT
     !.mediumTerm = Append(@, [type |-> "structured_compression",
                               summary |-> generateStructuredSummary(cut, now),
                               timestamp |-> now,
                               originalCount |-> Len(kept),
                               originalTokens |-> SumTokens(kept)]),
     !.shortTerm = kept,
     !.messagesByRole = cleanupOldMessages(@, now),
     !.contextStats = [@ EXCEPT !.compressionCount = @ + 1,
                                !.lastCompressTime = now,
                                !.totalTokens = SumTokens(kept)]]

\* compressMemory(): one summary of the current shortTerm is appended to
\* mediumTerm, shortTerm keeps its last 20 messages, and totalTokens is
\* recomputed from them
compressMemory(m, now) ==
  LET kept == sliceLast(m.shortTerm, retentionWindow) IN
  [m EXCEPT
     !.mediumTerm = Append(@, [type |-> "structured_compression",
                               summary |-> generateStructuredSummary(m, now),
                               timestamp |-> now,
                               originalCount |-> Len(m.shortTerm),
                               originalTokens |-> m.contextStats.totalTokens]),
     !.shortTerm = kept,
     !.messagesByRole = cleanupOldMessages(@, now),
     !.contextStats = [@ EXCEPT !.compressionCount = @ + 1,
                                !.lastCompressTime = now,
                                !.totalTokens = SumTokens(kept)]]

\* addMessage up to the compression test: the message is enriched, pushed on
\* shortTerm, filed under its role, and counted
pushMessage(m, message, now) ==
  LET role == IF message.role = "" THEN "system" ELSE message.role
      enrichedMessage ==
        [id |-> now, timestamp |-> now, role |-> role,
         content |-> message.content,
         tokenCount |-> estimateTokens(message.content),
         type |-> IF message.type = "" THEN "general" ELSE message.type]
  IN [m EXCEPT
        !.shortTerm = Append(@, enrichedMessage),
        !.llmMessages = IF role \in LLMRoles THEN Append(@, enrichedMessage) ELSE @,
        !.messagesByRole =
           IF role \in LLMRoles
           THEN [@ EXCEPT ![role] = Append(@, enrichedMessage)] ELSE @,
        !.contextStats = updateContextStats(@, enrichedMessage)]

\* addMessage(message): if (this.shouldCompress()) this.compressMemory()
addMessage(m, message, now) ==
  LET pushed == pushMessage(m, message, now) IN
  IF shouldCompress(pushed) THEN compressMemory(pushed, now) ELSE pushed

\* addMessage(message) throws while it builds enrichedMessage, before any
\* push, when estimateTokens(message.content || '') does
addMessageThrows(message) == estimateTokensThrows(message.content)

\* exportSession(): the fields of the store and the time of the export
exportSession(m, now) ==
  [shortTerm |-> m.shortTerm, mediumTerm |-> m.mediumTerm,
   longTerm |-> m.longTerm, llmMessages |-> m.llmMessages,
   messagesByRole |-> m.messagesByRole, contextStats |-> m.contextStats,
   exportTime |-> now]

\* { ...a, ...b }: the keys of both, b's value where both have the key
spread(a, b) ==
  [k \in DOMAIN a \cup DOMAIN b |-> IF k \in DOMAIN b THEN b[k] ELSE a[k]]

\* data.field || dflt, for a field that is an array or an object when it is
\* there: those are truthy also when empty
orDefault(data, field, dflt) ==
  IF field \in DOMAIN data THEN data[field] ELSE dflt

\* an import that spreads the store's own statistics over the imported ones
importSessionOwnStats(m, data) ==
  [m EXCEPT
     !.shortTerm = orDefault(data, "shortTerm", <<>>),
     !.mediumTerm = orDefault(data, "mediumTerm", <<>>),
     !.longTerm = orDefault(data, "longTerm", {}),
     !.llmMessages = orDefault(data, "llmMessages", <<>>),
     !.messagesByRole = orDefault(data, "messagesByRole", [r \in LLMRoles |-> <<>>]),
     !.contextStats = spread(orDefault(data, "contextStats", <<>>), @)]

\* importSession(data)
importSession(m, data) ==
  [m EXCEPT
     !.shortTerm = orDefault(data, "shortTerm", <<>>),
     !.mediumTerm = orDefault(data, "mediumTerm", <<>>),
     !.longTerm = orDefault(data, "longTerm", {}),
     !.llmMessages = orDefault(data, "llmMessages", <<>>),
     !.messagesByRole = orDefault(data, "messagesByRole", [r \in LLMRoles |-> <<>>]),
     !.contextStats = spread(@, orDefault(data, "contextStats", <<>>))]

RECURSIVE GCD(_, _)
GCD(a, b) == IF b = 0 THEN a ELSE GCD(b, a % b)

\* the number a / b || 0, as a fraction in lowest terms: 0 / 0 is NaN and
\* gives 0, a / 0 is Infinity (1 over 0 here)
Quotient(a, b) ==
  IF a = 0 THEN [num |-> 0, den |-> 1]
  ELSE [num |-> a \div GCD(a, b), den |-> b \div GCD(a, b)]

\* getLLMContext, line 412: const msgTokens = msg.tokenCount || 0
msgTokens(msg) == msg.tokenCount

\* getLLMContext, lines 410-423: the loop from the newest message `history[i]`
\* backwards; it stops at the first message that does not fit
RECURSIVE contextWalk(_, _, _, _)
contextWalk(history, i, maxTokens, acc) ==
  IF i = 0 THEN acc
  ELSE IF acc.totalTokens + msgTokens(history[i]) > maxTokens THEN acc
  ELSE contextWalk(history, i - 1, maxTokens,
         [messages |-> <<[role |-> history[i].role,
                          content |-> history[i].content,
                          timestamp |-> history[i].timestamp]>> \o acc.messages,
          totalTokens |-> acc.totalTokens + msgTokens(history[i])])

\* the loop with `continue` for `break`: a message that does not fit is
\* passed over and older ones are still taken
RECURSIVE contextWalkPassing(_, _, _, _)
contextWalkPassing(history, i, maxTokens, acc) ==
  IF i = 0 THEN acc
  ELSE IF acc.totalTokens + msgTokens(history[i]) > maxTokens
  THEN contextWalkPassing(history, i - 1, maxTokens, acc)
  ELSE contextWalkPassing(history, i - 1, maxTokens,
         [messages |-> <<[role |-> history[i].role,
                          content |-> history[i].content,
                          timestamp |-> history[i].timestamp]>> \o acc.messages,
          totalTokens |-> acc.totalTokens + msgTokens(history[i])])

\* what getLLMContext returns for the messages and tokens its loop collected
contextResult(m, acc) ==
  [messages |-> acc.messages,
   totalTokens |-> acc.totalTokens,
   messageCount |-> Len(acc.messages),
   compressionRatio |-> Quotient(acc.totalTokens, m.contextStats.totalTokens)]

\* a context taken with the loop that passes over what does not fit
getLLMContextPassing(m, maxTokens) ==
  contextResult(m, contextWalkPassing(m.llmMessages, Len(m.llmMessages), maxTokens,
                                      [messages |-> <<>>, totalTokens |-> 0]))

\* a context taken from shortTerm
getLLMContextOfShortTerm(m, maxTokens) ==
  contextResult(m, contextWalk(m.shortTerm, Len(m.shortTerm), maxTokens,
                               [messages |-> <<>>, totalTokens |-> 0]))

\* getLLMContext(maxTokens)
getLLMContext(m, maxTokens) ==
  contextResult(m, contextWalk(m.llmMessages, Len(m.llmMessages), maxTokens,
                               [messages |-> <<>>, totalTokens |-> 0]))

(* ------------------------------- state -------------------------------- *)
Units == 1..MaxUnits

VARIABLES
  parentConfig,     \* SubAgentManager.parentConfig
  maxSubAgents,     \* SubAgentManager.maxSubAgents
  subAgents,        \* SubAgentManager.subAgents: the ids registered in the Map
  activeSubAgents,  \* SubAgentManager.activeSubAgents
  lastCreate,       \* how the caller's latest createSubAgent call ended
  nextId,           \* the next SubAgent id to be generated
  task,             \* SubAgent.task
  config,           \* SubAgent.config
  timedOut,         \* config.timeout ms have passed since the unit's execute began
  pc,               \* where the unit's execute() stands
  aborted,          \* SubAgent.abortController.signal.aborted
  isRunning,        \* SubAgent.isRunning
  events,           \* the lifecycle events the unit has emitted, in order
  steps,            \* execute(): const steps
  idx,              \* executeSteps(): the loop index i
  cur,              \* the step result executeStep has returned, not yet pushed
  results,          \* executeSteps(): const results
  memory,           \* SubAgent.memory.shortTerm
  result,           \* what the unit's latest execute() promise resolved with
  slotReleases,     \* how often the manager's listeners ran activeSubAgents--
  taskTool,         \* WkAgent.taskTool: its own manager's Map and counter, the
                    \* units it created, and what the agent's task tool
                    \* has seen and reported of its calls
  abortedAt,        \* where execute() stood when the signal was first set
  batch,            \* the executeConcurrent call in progress
  nAborts,          \* abort() calls so far
  nExecutes,        \* caller execute() calls so far
  lim,              \* what the environment of this behaviour may do
  enhancedMemory,   \* an EnhancedAgentMemory
  newMemory,        \* the store that imports the session of enhancedMemory
  driver,           \* the caller of enhancedMemory: calls made, loop, clock,
                    \* and whether its last call threw
  llmContext        \* what the caller's latest call returned, if getLLMContext

unitVars == <<task, config, timedOut, pc, aborted, isRunning, events, steps,
              idx, cur, results, memory, result, abortedAt>>
managerVars == <<parentConfig, maxSubAgents, subAgents, activeSubAgents,
                 lastCreate, nextId, slotReleases, taskTool>>
memoryVars == <<enhancedMemory, driver, llmContext, newMemory>>
envVars == <<nAborts, nExecutes, lim, memoryVars>>
vars == <<unitVars, managerVars, batch, envVars>>

Pending == [state |-> "pending"]
NotStarted == [state |-> "not started"]
NoBatch == [pc |-> "none", tasks |-> <<>>, units |-> <<>>, out |-> <<>>,
            settled |-> <<>>]
NeverAborted == [pc |-> "never", idx |-> 0, total |-> 0]
NoContext == [maxTokens |-> 0, value |-> "none"]
NoImport == [imported |-> FALSE, store |-> FreshMemory, aliased |-> {}]
\* what the agent's task tool returned last: nothing yet
NoReport == [success |-> FALSE, error |-> "no call"]
\* new TaskTool(config): this.manager = new SubAgentManager(parentConfig),
\* with no unit, and no call of the task tool made
NoTaskTool == [subAgents |-> {}, activeSubAgents |-> 0, created |-> {},
               promise |-> "none", report |-> NoReport, reported |-> {}]
\* a parentConfig that sets nothing: new SubAgentManager() with its default {}
EmptyConfig == [maxConcurrency |-> 0, timeout |-> 0, enableLLM |-> FALSE]
NoConfig == [maxConcurrency |-> 0, enableLLM |-> FALSE, timeout |-> 0,
             sandbox |-> FALSE]

\* the state after new SubAgentManager(parentConfig) and
\* new EnhancedAgentMemory()
Constructed ==
  /\ maxSubAgents \in 1..MaxCeiling
  /\ subAgents = {}
  /\ activeSubAgents = 0
  /\ lastCreate = "none"
  /\ nextId = 1
  /\ task = [u \in Units |-> ""]
  /\ config = [u \in Units |-> NoConfig]
  /\ timedOut = [u \in Units |-> FALSE]
  /\ pc = [u \in Units |-> "none"]
  /\ aborted = [u \in Units |-> FALSE]
  /\ isRunning = [u \in Units |-> FALSE]
  /\ events = [u \in Units |-> <<>>]
  /\ steps = [u \in Units |-> <<>>]
  /\ idx = [u \in Units |-> 0]
  /\ cur = [u \in Units |-> NoStep]
  /\ results = [u \in Units |-> <<>>]
  /\ memory = [u \in Units |-> <<>>]
  /\ result = [u \in Units |-> NotStarted]
  /\ slotReleases = [u \in Units |-> 0]
  /\ taskTool = NoTaskTool
  /\ abortedAt = [u \in Units |-> NeverAborted]
  /\ batch = NoBatch
  /\ nAborts = 0
  /\ nExecutes = 0
  /\ enhancedMemory = FreshMemory
  /\ driver = [calls |-> 0, loopLeft |-> 0, clock |-> 0, threw |-> FALSE]
  /\ newMemory = NoImport
  /\ llmContext = NoContext

\* a manager whose callers create, run, abort and batch single-step tasks
Init ==
  /\ Constructed
  /\ parentConfig = EmptyConfig
  /\ lim = [units |-> MaxUnits, aborts |-> MaxAborts, executes |-> MaxExecutes,
            batch |-> MaxBatch, tasks |-> {TScan}]

\* one executeConcurrent call over tasks with and without a tool call, and
\* aborts of its units
InitBatch ==
  /\ Constructed
  /\ parentConfig = EmptyConfig
  /\ lim = [units |-> MaxBatch, aborts |-> BatchAborts, executes |-> 0,
            batch |-> MaxBatch, tasks |-> {TRead, TScan}]

\* one executeConcurrent call and abortAll() calls while its units run
InitAbortAll ==
  /\ Constructed
  /\ parentConfig = EmptyConfig
  /\ lim = [units |-> MaxBatch, aborts |-> MaxBatch, executes |-> 0,
            batch |-> MaxBatch, tasks |-> {TRead, TScan}]

\* a pool run to its ceiling and beyond: units are created, run a task with
\* a tool call and aborted, and further units take the slots they leave
InitPool ==
  /\ Constructed
  /\ parentConfig = EmptyConfig
  /\ lim = [units |-> MaxCeiling, aborts |-> PoolAborts,
            executes |-> MaxCeiling, batch |-> 0, tasks |-> {TRead}]

\* one executeConcurrent call of a parent agent that also appends to its
\* own memory while the units run
InitIsolation ==
  /\ Constructed
  /\ parentConfig = EmptyConfig
  /\ lim = [units |-> MaxBatch, aborts |-> BatchAborts, executes |-> 0,
            batch |-> MaxBatch, tasks |-> {TRead, TScan}, calls |-> ParentCalls]

\* the parent configurations of the examples: maxConcurrency 3
\* (SUBAGENT_GUIDE.md:210), timeout 5000 (test-sub-agent.js:282), the
\* analyzer enabled or not; 0 for a key that is not set
ParentConfigs ==
  [maxConcurrency : {0, 3}, timeout : {0, 5000}, enableLLM : BOOLEAN]

\* one managed unit under any of these parent configurations
InitConfigured ==
  /\ Constructed
  /\ parentConfig \in ParentConfigs
  /\ maxSubAgents = MaxCeiling
  /\ lim = [units |-> 1, aborts |-> PoolAborts, executes |-> UnitExecutes,
            batch |-> 0, tasks |-> {TRead, TRefactor}]

\* a WkAgent whose callers create and run units through createSubAgent and
\* through the task tool; both managers are built from the agent's config
InitTaskTool ==
  /\ Constructed
  /\ parentConfig = EmptyConfig
  /\ lim = [units |-> MaxUnits, aborts |-> 0, executes |-> 0,
            batch |-> 0, tasks |-> {TRead}]

\* one EnhancedAgentMemory and its caller; no unit is created
InitMemory ==
  /\ Constructed
  /\ parentConfig = EmptyConfig
  /\ maxSubAgents = MaxCeiling
  /\ lim = [units |-> 0, aborts |-> 0, executes |-> 0, batch |-> 0,
            tasks |-> {}, calls |-> MaxCalls]

\* one managed unit, run and aborted by its caller, over every kind of task
InitUnit ==
  /\ Constructed
  /\ parentConfig = EmptyConfig
  /\ lim = [units |-> 1, aborts |-> UnitAborts, executes |-> UnitExecutes,
            batch |-> 0, tasks |-> {TSearch, TRead, TScan, TRefactor}]

(* ------------------------- SubAgentManager ---------------------------- *)
\* a capacity test that lets one unit more in
AtCapacityOver(active) == active > maxSubAgents

\* createSubAgent, line 379: the capacity test reads the counter
AtCapacity(active) == active >= maxSubAgents

\* createSubAgent: the unit is constructed (SubAgent.constructor), put in the
\* Map and counted; at capacity the call throws and changes nothing.
CreateSubAgent(t) ==
  /\ IF AtCapacity(activeSubAgents)
     THEN /\ lastCreate' = "capacity error"
          /\ UNCHANGED <<subAgents, activeSubAgents, nextId, task, config, pc>>
     ELSE /\ nextId <= lim.units
          /\ lastCreate' = "created"
          /\ subAgents' = subAgents \cup {nextId}
          /\ activeSubAgents' = activeSubAgents + 1
          /\ task' = [task EXCEPT ![nextId] = t]
          /\ config' = [config EXCEPT ![nextId] = subAgentConfig(parentConfig)]
          /\ pc' = [pc EXCEPT ![nextId] = "idle"]
          /\ nextId' = nextId + 1
  /\ UNCHANGED <<parentConfig, maxSubAgents, timedOut, slotReleases, aborted,
                 isRunning, events, steps, idx, cur, results, memory, result,
                 abortedAt, batch, envVars, taskTool>>

\* createSubAgents: one createSubAgent per task, a capacity error is caught
\* and the task skipped; the units created, in order.
RECURSIVE createSubAgents(_, _, _)
createSubAgents(tasks, active, id) ==
  IF tasks = <<>> THEN <<>>
  ELSE IF AtCapacity(active) THEN createSubAgents(Tail(tasks), active, id)
  ELSE <<[id |-> id, task |-> Head(tasks)]>>
       \o createSubAgents(Tail(tasks), active + 1, id + 1)

\* an outcome array filled in the order in which the promises settle
allSettledInFinishOrder(out, i, value) ==
  [out EXCEPT ![CHOOSE j \in 1..Len(out) :
                  out[j] = [state |-> "pending"]
                  /\ \A h \in 1..(j - 1) : out[h] # [state |-> "pending"]] = value]

\* Promise.allSettled keeps each promise's outcome at the promise's index
allSettledStore(out, i, value) == [out EXCEPT ![i] = value]

\* the index of unit u's promise in the array handed to Promise.allSettled
PromiseIndex(b, u) == CHOOSE i \in 1..Len(b.units) : b.units[i] = u

\* the batch's outcome array after unit u's execute() promise resolved
BatchAfter(b, u, value) ==
  IF b.pc \in {"created", "running"} /\ \E i \in 1..Len(b.units) : b.units[i] = u
  THEN [b EXCEPT !.out = allSettledStore(b.out, PromiseIndex(b, u), value),
                 !.settled = Append(@, u)]
  ELSE b

(* ----------------------------- SubAgent ------------------------------- *)
ErrorResult(u, message) ==
  [state |-> "resolved", success |-> FALSE, subAgentId |-> u,
   task |-> task[u], error |-> message]

FinalResult(u) ==
  [state |-> "resolved", success |-> TRUE, subAgentId |-> u, task |-> task[u],
   steps |-> steps[u], results |-> results[u],
   summary |-> summarizeResults(results[u])]

\* a loop that walks the steps from the last one
StepAtReversed(stp, i) == stp[Len(stp) - i]

\* executeSteps, line 181: const step = steps[i]
StepAt(stp, i) == stp[i + 1]

\* a step loop that never polls the signal
StepsInterruptedNever(u) == FALSE

\* a signal shared by all units: one abort() interrupts every step loop
StepsInterruptedShared(u) == \E v \in Units : aborted[v]

\* executeSteps, line 183: the cancellation poll at the head of each iteration
StepsInterrupted(u) == aborted[u]

\* executeSteps at the head of iteration i, up to the next await
LoopHead(u, stp, i) ==
  IF i >= Len(stp) THEN [kind |-> "done"]
  ELSE IF StepsInterrupted(u) THEN [kind |-> "interrupted"]
  ELSE executeStepBegin(StepAt(stp, i), i + 1, Len(stp))

\* a listener that forgets the delete
mapDeleteNothing(map, ids) == map

\* createSubAgent, lines 393, 399 and 405: this.subAgents.delete(subAgent.id),
\* for every id of `ids`
mapDelete(map, ids) == map \ ids

\* What the end of execute() does when `fin`: emit `ev` ("complete" or
\* "error"); the unit's own listener clears isRunning, the listener of the
\* manager that created the unit (the caller's, or the one of the TaskTool)
\* deletes the unit from its Map and decrements its counter; the promise
\* resolves with `value`.
Settle(u, fin, ev, value) ==
  IF fin
  THEN /\ events' = [events EXCEPT ![u] = Append(@, ev)]
       /\ isRunning' = [isRunning EXCEPT ![u] = FALSE]
       /\ result' = [result EXCEPT ![u] = value]
       /\ IF u \in taskTool.created
          THEN /\ taskTool' = [taskTool EXCEPT
                                 !.subAgents = mapDelete(@, {u}),
                                 !.activeSubAgents = @ - 1]
               /\ UNCHANGED <<subAgents, activeSubAgents>>
          ELSE /\ subAgents' = mapDelete(subAgents, {u})
               /\ activeSubAgents' = activeSubAgents - 1
               /\ UNCHANGED taskTool
       /\ slotReleases' = [slotReleases EXCEPT ![u] = @ + 1]
       /\ batch' = BatchAfter(batch, u, value)
  ELSE UNCHANGED <<events, isRunning, result, subAgents, activeSubAgents,
                   slotReleases, batch, taskTool>>

\* one store that every unit writes to
sharedMemory(mem, u, value) == [v \in Units |-> value]

\* SubAgent.constructor, line 41: this.memory = new AgentMemory(); a write
\* through this.memory reaches the store of unit u and no other
ownMemory(mem, u, value) == [mem EXCEPT ![u] = value]

\* executeSteps resumed at the head of iteration i
Resume(u, stp, i, res, mem) ==
  LET h == LoopHead(u, stp, i) IN
  /\ steps' = [steps EXCEPT ![u] = stp]
  /\ idx' = [idx EXCEPT ![u] = i]
  /\ results' = [results EXCEPT ![u] = res]
  /\ memory' = ownMemory(memory, u, mem)
  /\ cur' = [cur EXCEPT ![u] = IF h.kind = "returned" THEN h ELSE NoStep]
  /\ pc' = [pc EXCEPT ![u] =
             CASE h.kind = "done" -> "summarize"
               [] h.kind = "interrupted" -> "idle"
               [] h.kind = "dispatched" -> "tool"
               [] h.kind = "returned" -> "stepReturned"]
  /\ Settle(u, h.kind = "interrupted", "error", ErrorResult(u, "steps interrupted"))
  /\ UNCHANGED <<parentConfig, maxSubAgents, lastCreate, nextId, task,
                 config, timedOut, aborted, abortedAt,
                 envVars>>

\* execute() called on every unit of the sequence `us`, each up to its first
\* await: emit start; an aborted signal throws into the catch, which emits
\* error and resolves; otherwise decomposeTask is awaited.
StartUnits(us) ==
  LET U == Range(us)
      A == {u \in U : aborted[u]}
  IN
  /\ events' = [u \in Units |->
       IF u \in A THEN events[u] \o <<"start", "error">>
       ELSE IF u \in U THEN Append(events[u], "start") ELSE events[u]]
  /\ isRunning' = [u \in Units |-> IF u \in U THEN u \notin A ELSE isRunning[u]]
  /\ pc' = [u \in Units |->
       IF u \in A THEN "idle" ELSE IF u \in U THEN "decompose" ELSE pc[u]]
  /\ result' = [u \in Units |->
       IF u \in A THEN ErrorResult(u, "interrupted")
       ELSE IF u \in U THEN Pending ELSE result[u]]
  /\ steps' = [u \in Units |-> IF u \in U THEN <<>> ELSE steps[u]]
  /\ results' = [u \in Units |-> IF u \in U THEN <<>> ELSE results[u]]
  /\ idx' = [u \in Units |-> IF u \in U THEN 0 ELSE idx[u]]
  /\ cur' = [u \in Units |-> IF u \in U THEN NoStep ELSE cur[u]]
  /\ subAgents' = mapDelete(subAgents, A)
  /\ activeSubAgents' = activeSubAgents - Cardinality(A)
  /\ slotReleases' = [u \in Units |->
       IF u \in A THEN slotReleases[u] + 1 ELSE slotReleases[u]]
  /\ timedOut' = [u \in Units |-> u \notin U /\ timedOut[u]]
  /\ UNCHANGED <<parentConfig, maxSubAgents, lastCreate, nextId, task, config,
                 aborted, memory, abortedAt, nAborts, lim, memoryVars,
                 taskTool>>

\* the caller of createSubAgent runs the unit: subAgent.execute(subAgent.task)
\* (a unit may be run again once its execute has resolved; two overlapping
\* execute calls on one unit, which no caller in the repository makes, and
\* caller runs of a batch's units are left out)
Execute(u) ==
  /\ pc[u] = "idle"
  /\ u \notin Range(batch.units)
  /\ nExecutes < lim.executes
  /\ nExecutes' = nExecutes + 1
  /\ StartUnits(<<u>>)
  /\ UNCHANGED batch

\* execute(): await decomposeTask(subTask) returns; executeSteps begins
DecomposeReturn(u) ==
  /\ pc[u] = "decompose"
  /\ ~config[u].enableLLM
  /\ Resume(u, decomposeTask(task[u]), 0, <<>>, memory[u])

\* execute(): await decomposeTask(subTask) returns in a unit that has an
\* llmService, after the analyzer's call ended with `outcome`
DecomposeReturnLLM(u, outcome) ==
  /\ pc[u] = "decompose"
  /\ config[u].enableLLM
  /\ Resume(u, decomposeTaskLLM(task[u], outcome), 0, <<>>, memory[u])

\* config.timeout ms pass while a tool call of the unit is pending: no timer
\* is set anywhere (config.timeout is only reported by getStatus), so no
\* code runs
TimeoutElapses(u) ==
  /\ pc[u] = "tool"
  /\ ~timedOut[u]
  /\ timedOut' = [timedOut EXCEPT ![u] = TRUE]
  /\ UNCHANGED <<task, config, pc, aborted, isRunning, events, steps, idx, cur,
                 results, memory, result, abortedAt, managerVars, batch,
                 envVars>>

\* executeStep: the tool's promise settles and executeStep returns its result
ToolReturn(u, outcome) ==
  /\ pc[u] = "tool"
  /\ LET r == executeStepSettled(StepAt(steps[u], idx[u]), idx[u] + 1,
                                 Len(steps[u]), outcome) IN
     /\ cur' = [cur EXCEPT ![u] = IF r.kind = "returned" THEN r ELSE NoStep]
     /\ pc' = [pc EXCEPT ![u] = IF r.kind = "returned" THEN "stepReturned" ELSE "idle"]
     /\ Settle(u, r.kind # "returned", "error", ErrorResult(u, "step threw"))
  /\ UNCHANGED <<parentConfig, maxSubAgents, lastCreate, nextId, task,
                 config, timedOut, aborted, steps, idx,
                 results, memory, abortedAt, envVars>>

\* a loop that never advances: the step that returned is run again
StepContinueSameStep(u) ==
  /\ pc[u] = "stepReturned"
  /\ Resume(u, steps[u], idx[u], results[u], memory[u])

\* executeSteps resumed after await executeStep: results.push(result),
\* memory.addToShortTerm({type: "sub_step", step, result}), next iteration
StepContinue(u) ==
  /\ pc[u] = "stepReturned"
  /\ Resume(u, steps[u], idx[u] + 1, Append(results[u], cur[u]),
            addToShortTerm(memory[u],
              [type |-> "sub_step", step |-> cur[u].step, result |-> cur[u]]))

\* execute(): await summarizeResults returns; emit complete, resolve
SummaryReturn(u) ==
  /\ pc[u] = "summarize"
  /\ pc' = [pc EXCEPT ![u] = "idle"]
  /\ Settle(u, TRUE, "complete", FinalResult(u))
  /\ UNCHANGED <<parentConfig, maxSubAgents, lastCreate, nextId, task,
                 config, timedOut, aborted, steps, idx,
                 cur, results, memory, abortedAt, envVars>>

(* ------------------------------ TaskTool ------------------------------ *)
\* The agent's task tool calls taskTool.execute(description, prompt, context),
\* an async function, which runs up to its first await:
\* this.manager.createSubAgent(taskInfo) on the TaskTool's own manager (built
\* from the same config, so with the same maxSubAgents), then
\* subAgent.execute(prompt), which emits start and awaits decomposeTask.  At
\* capacity createSubAgent throws before anything is constructed, and the
\* promise that execute returned is rejected.
TaskToolExecute(t) ==
  /\ taskTool.promise = "none"
  /\ IF AtCapacity(taskTool.activeSubAgents)
     THEN /\ taskTool' = [taskTool EXCEPT !.promise = "rejected"]
          /\ UNCHANGED <<nextId, task, config, pc, isRunning, events, result>>
     ELSE /\ nextId <= lim.units
          /\ taskTool' = [taskTool EXCEPT
                            !.subAgents = @ \cup {nextId},
                            !.activeSubAgents = @ + 1,
                            !.created = @ \cup {nextId}]
          /\ task' = [task EXCEPT ![nextId] = t]
          /\ config' = [config EXCEPT ![nextId] = subAgentConfig(parentConfig)]
          /\ events' = [events EXCEPT ![nextId] = Append(@, "start")]
          /\ isRunning' = [isRunning EXCEPT ![nextId] = TRUE]
          /\ pc' = [pc EXCEPT ![nextId] = "decompose"]
          /\ result' = [result EXCEPT ![nextId] = Pending]
          /\ nextId' = nextId + 1
  /\ UNCHANGED <<parentConfig, maxSubAgents, subAgents, activeSubAgents,
                 lastCreate, slotReleases, timedOut, aborted, steps, idx, cur,
                 results, memory, abortedAt, batch, envVars>>

\* the task tool registered by WkAgent: `await this.taskTool.execute(...)`
\* sits in a try; the rejection is caught and the tool returns
\* { success: false, error: error.message }
TaskToolCatch ==
  /\ taskTool.promise = "rejected"
  /\ taskTool' = [taskTool EXCEPT
                    !.promise = "none",
                    !.report = [success |-> FALSE, error |-> "capacity error"]]
  /\ UNCHANGED <<unitVars, parentConfig, maxSubAgents, subAgents,
                 activeSubAgents, lastCreate, nextId, slotReleases, batch,
                 envVars>>

\* the task tool after the unit's execute() resolved: it returns
\* { success: true, result, type: "sub_agent_result" }, whatever the result
TaskToolReturn(u) ==
  /\ u \in taskTool.created \ taskTool.reported
  /\ result[u].state = "resolved"
  /\ taskTool' = [taskTool EXCEPT
                    !.report = [success |-> TRUE, error |-> "none"],
                    !.reported = @ \cup {u}]
  /\ UNCHANGED <<unitVars, parentConfig, maxSubAgents, subAgents,
                 activeSubAgents, lastCreate, nextId, slotReleases, batch,
                 envVars>>

\* WkAgent.getSubAgentStatus(): this.subAgentManager.getStatus(), the counter
\* and the Map of the agent's own manager
getSubAgentStatus ==
  [totalSubAgents |-> activeSubAgents, subAgents |-> subAgents]

\* abort() on every unit of S: set the signal, clear isRunning, emit aborted;
\* the manager's aborted listener deletes the unit and decrements the counter.
AbortUnits(S) ==
  /\ nAborts + Cardinality(S) <= lim.aborts
  /\ nAborts' = nAborts + Cardinality(S)
  /\ aborted' = [u \in Units |-> u \in S \/ aborted[u]]
  /\ abortedAt' = [u \in Units |->
       IF u \in S /\ ~aborted[u]
       THEN [pc |-> pc[u], idx |-> idx[u], total |-> Len(steps[u])]
       ELSE abortedAt[u]]
  /\ isRunning' = [u \in Units |-> u \notin S /\ isRunning[u]]
  /\ events' = [u \in Units |->
       IF u \in S THEN Append(events[u], "aborted") ELSE events[u]]
  /\ subAgents' = mapDelete(subAgents, S)
  /\ activeSubAgents' = activeSubAgents - Cardinality(S)
  /\ slotReleases' = [u \in Units |->
       IF u \in S THEN slotReleases[u] + 1 ELSE slotReleases[u]]
  /\ UNCHANGED <<parentConfig, maxSubAgents, lastCreate, nextId, task,
                 config, timedOut, pc, steps, idx, cur,
                 results, memory, result, batch, nExecutes, lim, memoryVars,
                 taskTool>>

\* SubAgent.abort, on any unit that exists
Abort(u) ==
  /\ pc[u] # "none"
  /\ AbortUnits({u})

\* a loop by index over the entries, which shrink under it: after each
\* abort() the next entry has moved into the visited position and is skipped
RECURSIVE abortAllVisitsSkipping(_)
abortAllVisitsSkipping(map) ==
  IF map = {} THEN {}
  ELSE LET u == CHOOSE x \in map : \A y \in map : x <= y
           rest == map \ {u}
       IN {u} \cup (IF rest = {} THEN {}
                    ELSE abortAllVisitsSkipping(
                           rest \ {CHOOSE x \in rest : \A y \in rest : x <= y}))

\* abortAll, line 464: for (const [id, subAgent] of this.subAgents).  A Map is
\* iterated in insertion order (the order of the ids); the abort() of the
\* entry being visited deletes that entry, through the aborted listener, and
\* the iteration goes on with the entries after it that remain.
RECURSIVE abortAllVisits(_)
abortAllVisits(map) ==
  IF map = {} THEN {}
  ELSE LET u == CHOOSE x \in map : \A y \in map : x <= y
       IN {u} \cup abortAllVisits({x \in mapDelete(map, {u}) : x > u})

\* SubAgentManager.abortAll: abort() on every unit in the Map (on an empty
\* Map the loop body never runs and nothing changes)
AbortAll ==
  /\ subAgents # {}
  /\ AbortUnits(abortAllVisits(subAgents))

\* executeConcurrent up to its await: createSubAgents(tasks)
ExecuteConcurrent(tasks) ==
  /\ batch.pc = "none"
  /\ LET made == createSubAgents(tasks, activeSubAgents, nextId) IN
     /\ nextId + Len(made) - 1 <= lim.units
     /\ batch' = [pc |-> "created", tasks |-> tasks,
                  units |-> [j \in 1..Len(made) |-> made[j].id],
                  out |-> [j \in 1..Len(made) |-> Pending],
                  settled |-> <<>>]
     /\ subAgents' = subAgents \cup {made[j].id : j \in 1..Len(made)}
     /\ activeSubAgents' = activeSubAgents + Len(made)
     /\ nextId' = nextId + Len(made)
     /\ task' = [u \in Units |->
          IF \E j \in 1..Len(made) : made[j].id = u
          THEN (CHOOSE m \in Range(made) : m.id = u).task ELSE task[u]]
     /\ config' = [u \in Units |->
          IF \E j \in 1..Len(made) : made[j].id = u
          THEN subAgentConfig(parentConfig) ELSE config[u]]
     /\ pc' = [u \in Units |->
          IF \E j \in 1..Len(made) : made[j].id = u THEN "idle" ELSE pc[u]]
  /\ UNCHANGED <<parentConfig, maxSubAgents, timedOut, lastCreate, slotReleases,
                 aborted, isRunning,
                 events, steps, idx, cur, results, memory, result, abortedAt,
                 envVars, taskTool>>

\* executeConcurrent resumed: subAgents.map(execute) calls execute() on every
\* created unit, then Promise.allSettled(promises) is returned
BatchRun ==
  /\ batch.pc = "created"
  /\ StartUnits(batch.units)
  /\ batch' = [batch EXCEPT !.pc = "running",
       !.out = [j \in 1..Len(batch.units) |->
                 IF aborted[batch.units[j]]
                 THEN ErrorResult(batch.units[j], "interrupted") ELSE Pending],
       !.settled = SelectSeq(batch.units, LAMBDA u : aborted[u])]
  /\ UNCHANGED nExecutes

\* Promise.allSettled resolves once every promise has settled
BatchSettle ==
  /\ batch.pc = "running"
  /\ \A j \in 1..Len(batch.out) : batch.out[j] # Pending
  /\ batch' = [batch EXCEPT !.pc = "settled"]
  /\ UNCHANGED <<unitVars, managerVars, envVars>>

(* --------------------- callers of EnhancedAgentMemory ------------------ *)
\* the messages a caller adds: a short request, a long analysis, a tool
\* output that passes the token threshold alone, an object with neither
\* role nor content, and a tool message whose content is the result object
MessageKinds ==
  {[role |-> "user", content |-> 7, type |-> "task_request"],
   [role |-> "assistant", content |-> 1500, type |-> "task_analysis"],
   [role |-> "tool", content |-> 3000, type |-> "tool_result"],
   [role |-> "", content |-> 0, type |-> ""],
   [role |-> "tool", content |-> -1, type |-> "tool_result"]}

\* test-enhanced-memory.js, lines 50-56: the loop adds 50 user messages, each
\* a text without white space
loopCount == 50
LoopMessage == [role |-> "user", content |-> 1, type |-> "test_message"]

\* the budgets getLLMContext is called with: the test's and the default
MaxTokensValues == {1000, 4000}

\* memory.addMessage(message), by a caller that is not inside the loop
AddMessage(message) ==
  /\ driver.loopLeft = 0
  /\ driver.calls < lim.calls
  /\ driver' = [driver EXCEPT !.calls = @ + 1, !.clock = @ + 1,
                              !.threw = addMessageThrows(message)]
  /\ enhancedMemory' = IF addMessageThrows(message) THEN enhancedMemory
                       ELSE addMessage(enhancedMemory, message, driver.clock + 1)
  /\ llmContext' = NoContext
  /\ UNCHANGED <<unitVars, managerVars, batch, nAborts, nExecutes, lim,
                 newMemory>>

\* one iteration of the loop of addMessage calls; the first one enters it
LoopIteration ==
  /\ driver.loopLeft > 0 \/ driver.calls < lim.calls
  /\ driver' = [calls |-> IF driver.loopLeft = 0 THEN driver.calls + 1
                          ELSE driver.calls,
                loopLeft |-> IF driver.loopLeft = 0 THEN loopCount - 1
                             ELSE driver.loopLeft - 1,
                clock |-> driver.clock + 1,
                threw |-> FALSE]
  /\ enhancedMemory' = addMessage(enhancedMemory, LoopMessage, driver.clock + 1)
  /\ llmContext' = NoContext
  /\ UNCHANGED <<unitVars, managerVars, batch, nAborts, nExecutes, lim,
                 newMemory>>

\* memory.compressMemory(), called directly
CompressMemory ==
  /\ driver.loopLeft = 0
  /\ driver.calls < lim.calls
  /\ driver' = [driver EXCEPT !.calls = @ + 1, !.clock = @ + 1,
                              !.threw = FALSE]
  /\ enhancedMemory' = compressMemory(enhancedMemory, driver.clock + 1)
  /\ llmContext' = NoContext
  /\ UNCHANGED <<unitVars, managerVars, batch, nAborts, nExecutes, lim,
                 newMemory>>

\* memory.getLLMContext(maxTokens): the store is only read
GetLLMContext(maxTokens) ==
  /\ driver.loopLeft = 0
  /\ llmContext' = [maxTokens |-> maxTokens,
                    value |-> getLLMContext(enhancedMemory, maxTokens)]
  /\ UNCHANGED <<unitVars, managerVars, batch, nAborts, nExecutes, lim,
                 enhancedMemory, driver, newMemory>>

\* WkAgent.execute, line 102: the parent agent records a request in its own
\* memory; the object has a content and no role
TaskRequest == [role |-> "", content |-> 7, type |-> "task_request"]

\* a message whose role is none of the four that addMessage files under
\* llmMessages
OtherRoleMessage == [role |-> "function", content |-> 7, type |-> "tool_result"]

\* WkAgent.cleanup: memory.shortTerm = []; memory.mediumTerm = [], through
\* the setters of AgentMemory, which assign the two fields of the store and
\* nothing else (the agent's activeTasks is not part of the store)
cleanup(m) == [m EXCEPT !.shortTerm = <<>>, !.mediumTerm = <<>>]

Cleanup ==
  /\ driver.loopLeft = 0
  /\ driver.calls < lim.calls
  /\ driver' = [driver EXCEPT !.calls = @ + 1, !.threw = FALSE]
  /\ enhancedMemory' = cleanup(enhancedMemory)
  /\ llmContext' = NoContext
  /\ UNCHANGED <<unitVars, managerVars, batch, nAborts, nExecutes, lim,
                 newMemory>>

\* the values a caller assigns to longTerm
LongTermValues == {{"projectPath"}, {"projectPath", "currentTask"}}

\* memory.longTerm = value, through the setter of AgentMemory
SetLongTerm(value) ==
  /\ driver.loopLeft = 0
  /\ driver.calls < lim.calls
  /\ enhancedMemory.longTerm # value
  /\ driver' = [driver EXCEPT !.calls = @ + 1, !.threw = FALSE]
  /\ enhancedMemory' = [enhancedMemory EXCEPT !.longTerm = value]
  /\ UNCHANGED <<unitVars, managerVars, batch, nAborts, nExecutes, lim,
                 llmContext, newMemory>>

\* exportSession returns the arrays and objects of the store themselves and
\* importSession assigns them: after an import these fields of the two
\* stores are one object each; contextStats is a new object made by the
\* spread
AliasedFields ==
  {"shortTerm", "mediumTerm", "longTerm", "llmMessages", "messagesByRole"}

\* the other store after this one ran a call: a push on an array that both
\* hold shows in both; `pushed` is this store before the compression test
\* and `done` after the call. this.shortTerm = this.shortTerm.slice(-20)
\* assigns a new array to this store only, so the other keeps the array as
\* it was pushed; cleanupOldMessages assigns properties of the messagesByRole
\* object, which both hold
seenThroughAlias(other, pushed, done, aliased) ==
  [other EXCEPT
     !.shortTerm = IF "shortTerm" \in aliased THEN pushed.shortTerm ELSE @,
     !.mediumTerm = IF "mediumTerm" \in aliased THEN done.mediumTerm ELSE @,
     !.llmMessages = IF "llmMessages" \in aliased THEN done.llmMessages ELSE @,
     !.messagesByRole =
        IF "messagesByRole" \in aliased THEN done.messagesByRole ELSE @]

\* the fields still held by both stores after a call that took a store from
\* `own` to `done`: a compression gave this store a shortTerm of its own
aliasedAfter(own, done, aliased) ==
  IF done.contextStats.compressionCount # own.contextStats.compressionCount
  THEN aliased \ {"shortTerm"} ELSE aliased

\* memory.addMessage(message) on the exporting store, after the import
SourceAddMessage(message) ==
  /\ newMemory.imported
  /\ driver.loopLeft = 0
  /\ driver.calls < lim.calls
  /\ driver' = [driver EXCEPT !.calls = @ + 1, !.clock = @ + 1,
                              !.threw = addMessageThrows(message)]
  /\ LET now == driver.clock + 1
         pushed == pushMessage(enhancedMemory, message, now)
         done == addMessage(enhancedMemory, message, now)
     IN IF addMessageThrows(message)
        THEN UNCHANGED <<enhancedMemory, newMemory>>
        ELSE /\ enhancedMemory' = done
             /\ newMemory' =
                  [newMemory EXCEPT
                     !.store = seenThroughAlias(@, pushed, done, newMemory.aliased),
                     !.aliased = aliasedAfter(enhancedMemory, done, @)]
  /\ llmContext' = NoContext
  /\ UNCHANGED <<unitVars, managerVars, batch, nAborts, nExecutes, lim>>

\* memory.compressMemory() on the exporting store, after the import
SourceCompressMemory ==
  /\ newMemory.imported
  /\ driver.loopLeft = 0
  /\ driver.calls < lim.calls
  /\ driver' = [driver EXCEPT !.calls = @ + 1, !.clock = @ + 1,
                              !.threw = FALSE]
  /\ LET done == compressMemory(enhancedMemory, driver.clock + 1)
     IN /\ enhancedMemory' = done
        /\ newMemory' =
             [newMemory EXCEPT
                !.store = seenThroughAlias(@, enhancedMemory, done, newMemory.aliased),
                !.aliased = aliasedAfter(enhancedMemory, done, @)]
  /\ llmContext' = NoContext
  /\ UNCHANGED <<unitVars, managerVars, batch, nAborts, nExecutes, lim>>

\* newMemory.addMessage(message) on the importing store
CopyAddMessage(message) ==
  /\ newMemory.imported
  /\ driver.loopLeft = 0
  /\ driver.calls < lim.calls
  /\ driver' = [driver EXCEPT !.calls = @ + 1, !.clock = @ + 1,
                              !.threw = addMessageThrows(message)]
  /\ LET now == driver.clock + 1
         pushed == pushMessage(newMemory.store, message, now)
         done == addMessage(newMemory.store, message, now)
     IN IF addMessageThrows(message)
        THEN UNCHANGED <<enhancedMemory, newMemory>>
        ELSE /\ newMemory' =
                  [newMemory EXCEPT
                     !.store = done,
                     !.aliased = aliasedAfter(newMemory.store, done, @)]
             /\ enhancedMemory' =
                  seenThroughAlias(enhancedMemory, pushed, done, newMemory.aliased)
  /\ llmContext' = NoContext
  /\ UNCHANGED <<unitVars, managerVars, batch, nAborts, nExecutes, lim>>

\* test-enhanced-memory.js, lines 72-74: exported = memory.exportSession();
\* newMemory = new EnhancedAgentMemory(); newMemory.importSession(exported)
ExportImport ==
  /\ driver.loopLeft = 0
  /\ ~newMemory.imported
  /\ driver' = [driver EXCEPT !.clock = @ + 1, !.threw = FALSE]
  /\ newMemory' =
       [imported |-> TRUE,
        store |-> importSession(newEnhancedAgentMemory(driver.clock + 1),
                                exportSession(enhancedMemory, driver.clock + 1)),
        aliased |-> AliasedFields]
  /\ UNCHANGED <<unitVars, managerVars, batch, nAborts, nExecutes, lim,
                 enhancedMemory, llmContext>>

TaskLists == UNION {[1..n -> lim.tasks] : n \in 1..lim.batch}

Next ==
  \/ \E t \in lim.tasks : CreateSubAgent(t)
  \/ \E u \in Units : Execute(u)
  \/ \E u \in Units : DecomposeReturn(u)
  \/ \E u \in Units : StepContinue(u)
  \/ \E u \in Units : SummaryReturn(u)
  \/ \E u \in Units : Abort(u)
  \/ AbortAll
  \/ \E ts \in TaskLists : ExecuteConcurrent(ts)
  \/ BatchRun
  \/ BatchSettle

NextUnit ==
  \/ \E t \in lim.tasks : CreateSubAgent(t)
  \/ \E u \in Units : Execute(u)
  \/ \E u \in Units : DecomposeReturn(u)
  \/ \E u \in Units, o \in ToolOutcomes : ToolReturn(u, o)
  \/ \E u \in Units : StepContinue(u)
  \/ \E u \in Units : SummaryReturn(u)
  \/ \E u \in Units : Abort(u)

NextBatch ==
  \/ \E ts \in TaskLists : ExecuteConcurrent(ts)
  \/ BatchRun
  \/ \E u \in Units : DecomposeReturn(u)
  \/ \E u \in Units, o \in ToolOutcomes : ToolReturn(u, o)
  \/ \E u \in Units : StepContinue(u)
  \/ \E u \in Units : SummaryReturn(u)
  \/ \E u \in Units : Abort(u)
  \/ BatchSettle

NextAbortAll ==
  \/ \E ts \in TaskLists : ExecuteConcurrent(ts)
  \/ BatchRun
  \/ \E u \in Units : DecomposeReturn(u)
  \/ \E u \in Units, o \in ToolOutcomes : ToolReturn(u, o)
  \/ \E u \in Units : StepContinue(u)
  \/ \E u \in Units : SummaryReturn(u)
  \/ AbortAll
  \/ BatchSettle

NextPool ==
  \/ \E t \in lim.tasks : CreateSubAgent(t)
  \/ \E u \in Units : Execute(u)
  \/ \E u \in Units : DecomposeReturn(u)
  \/ \E u \in Units, o \in ToolOutcomes : ToolReturn(u, o)
  \/ \E u \in Units : StepContinue(u)
  \/ \E u \in Units : SummaryReturn(u)
  \/ \E u \in Units : Abort(u)

NextMemory ==
  \/ \E message \in MessageKinds : AddMessage(message)
  \/ LoopIteration
  \/ CompressMemory
  \/ \E maxTokens \in MaxTokensValues : GetLLMContext(maxTokens)

\* the store is filled, then its session is exported and imported
NextSession ==
  \/ \E message \in MessageKinds : ~newMemory.imported /\ AddMessage(message)
  \/ ~newMemory.imported /\ LoopIteration
  \/ ~newMemory.imported /\ CompressMemory
  \/ \E value \in LongTermValues : ~newMemory.imported /\ SetLongTerm(value)
  \/ ExportImport

\* one unit with or without an analyzer, and the passing of its timeout
NextConfigured ==
  \/ \E t \in lim.tasks : CreateSubAgent(t)
  \/ \E u \in Units : Execute(u)
  \/ \E u \in Units : DecomposeReturn(u)
  \/ \E u \in Units, o \in AnalyzerOutcomes : DecomposeReturnLLM(u, o)
  \/ \E u \in Units, o \in ToolOutcomes : ToolReturn(u, o)
  \/ \E u \in Units : StepContinue(u)
  \/ \E u \in Units : SummaryReturn(u)
  \/ \E u \in Units : Abort(u)
  \/ \E u \in Units : TimeoutElapses(u)

\* the store under callers that also add messages of another role
NextRoles ==
  \/ \E message \in MessageKinds \cup {OtherRoleMessage} : AddMessage(message)
  \/ LoopIteration
  \/ CompressMemory
  \/ \E maxTokens \in MaxTokensValues : GetLLMContext(maxTokens)

\* a store is filled, a second store imports its session, and both are
\* used afterwards
NextSnapshot ==
  \/ \E message \in MessageKinds : ~newMemory.imported /\ AddMessage(message)
  \/ ~newMemory.imported /\ LoopIteration
  \/ ~newMemory.imported /\ CompressMemory
  \/ ExportImport
  \/ \E message \in MessageKinds : SourceAddMessage(message)
  \/ SourceCompressMemory
  \/ \E message \in MessageKinds : CopyAddMessage(message)

\* units created by the agent's manager, and units created and run by its
\* task tool; no unit is aborted
NextTaskTool ==
  \/ \E t \in lim.tasks : CreateSubAgent(t)
  \/ \E t \in lim.tasks : TaskToolExecute(t)
  \/ TaskToolCatch
  \/ \E u \in Units : TaskToolReturn(u)
  \/ \E u \in Units : DecomposeReturn(u)
  \/ \E u \in Units, o \in ToolOutcomes : ToolReturn(u, o)
  \/ \E u \in Units : StepContinue(u)
  \/ \E u \in Units : SummaryReturn(u)

\* the parent agent's store: appends, compressions and cleanup
NextCleanup ==
  \/ \E message \in MessageKinds : AddMessage(message)
  \/ LoopIteration
  \/ CompressMemory
  \/ \E maxTokens \in MaxTokensValues : GetLLMContext(maxTokens)
  \/ Cleanup

\* a batch of units, and the parent agent appending to its own memory
NextIsolation ==
  \/ \E ts \in TaskLists : ExecuteConcurrent(ts)
  \/ BatchRun
  \/ \E u \in Units : DecomposeReturn(u)
  \/ \E u \in Units, o \in ToolOutcomes : ToolReturn(u, o)
  \/ \E u \in Units : StepContinue(u)
  \/ \E u \in Units : SummaryReturn(u)
  \/ \E u \in Units : Abort(u)
  \/ BatchSettle
  \/ AddMessage(TaskRequest)

Spec == Init /\ [][Next]_vars

SpecIsolation == InitIsolation /\ [][NextIsolation]_vars

SpecRoles == InitMemory /\ [][NextRoles]_vars

SpecCleanup == InitMemory /\ [][NextCleanup]_vars

SpecTaskTool == InitTaskTool /\ [][NextTaskTool]_vars

\* every awaited call of a unit returns: the analyzer or the rule-based
\* decomposition, each tool call, and the continuations that the event loop
\* runs once their promise has settled.  Nothing is assumed of the caller:
\* create, execute and abort may or may not happen.
Returns(u) ==
  /\ WF_vars(DecomposeReturn(u))
  /\ WF_vars(\E o \in AnalyzerOutcomes : DecomposeReturnLLM(u, o))
  /\ WF_vars(\E o \in ToolOutcomes : ToolReturn(u, o))
  /\ WF_vars(StepContinue(u))
  /\ WF_vars(SummaryReturn(u))

\* one unit of a parent with or without an analyzer, run, run again and
\* aborted at any point by its caller
InitReturns ==
  /\ Constructed
  /\ parentConfig \in {c \in ParentConfigs : c.maxConcurrency = 0 /\ c.timeout = 0}
  /\ maxSubAgents = MaxCeiling
  /\ lim = [units |-> 1, aborts |-> PoolAborts, executes |-> UnitExecutes,
            batch |-> 0, tasks |-> {TRead, TRefactor}]

NextReturns ==
  \/ \E t \in lim.tasks : CreateSubAgent(t)
  \/ \E u \in Units : Execute(u)
  \/ \E u \in Units : DecomposeReturn(u)
  \/ \E u \in Units, o \in AnalyzerOutcomes : DecomposeReturnLLM(u, o)
  \/ \E u \in Units, o \in ToolOutcomes : ToolReturn(u, o)
  \/ \E u \in Units : StepContinue(u)
  \/ \E u \in Units : SummaryReturn(u)
  \/ \E u \in Units : Abort(u)

SpecReturns ==
  InitReturns /\ [][NextReturns]_vars /\ \A u \in Units : Returns(u)

SpecSnapshot == InitMemory /\ [][NextSnapshot]_vars

SpecConfigured == InitConfigured /\ [][NextConfigured]_vars

SpecSession == InitMemory /\ [][NextSession]_vars

SpecMemory == InitMemory /\ [][NextMemory]_vars

SpecPool == InitPool /\ [][NextPool]_vars

SpecAbortAll == InitAbortAll /\ [][NextAbortAll]_vars

SpecBatch == InitBatch /\ [][NextBatch]_vars

SpecUnit == InitUnit /\ [][NextUnit]_vars

(* ------------------------------ claims -------------------------------- *)
Terminal == {"complete", "error", "aborted"}
Count(seq, e) == Cardinality({j \in 1..Len(seq) : seq[j] = e})
Last(seq) == seq[Len(seq)]

\* C1: in every reachable state the number of units registered in the
\* manager's Map is at most maxSubAgents.
C1_ActiveSetWithinCeiling == Cardinality(subAgents) <= maxSubAgents

\* C2: in a state whose Map holds maxSubAgents units no step constructs or
\* registers a unit: createSubAgent fails and leaves the Map and the count as
\* they are.
C2_CreateAtCeilingRejected ==
  [][Cardinality(subAgents) = maxSubAgents
       => nextId' = nextId /\ subAgents' \subseteq subAgents
          /\ activeSubAgents' <= activeSubAgents]_vars

\* C3: over a unit's lifetime the manager's count is decremented for it at
\* most once, whatever execute, abort and abortAll calls reach the unit.
C3_SlotReleasedOnce == \A u \in Units : slotReleases[u] <= 1

\* C4: once a unit has emitted a terminal event (complete, error, aborted) it
\* emits no further lifecycle event, no step of it is dispatched to a tool and
\* no step record is appended to its memory.
C4_TerminalAbsorbing ==
  [][\A u \in Units :
       (\E j \in 1..Len(events[u]) : events[u][j] \in Terminal)
         => /\ events'[u] = events[u]
            /\ memory'[u] = memory[u]
            /\ (pc'[u] = "tool" => pc[u] = "tool" /\ idx'[u] = idx[u])]_vars

\* the unit's signal was first set after step k had returned and before the
\* loop went on to an existing step k + 1 (k = abortedAt.idx + 1)
AbortedBetweenSteps(u) ==
  /\ abortedAt[u].pc = "stepReturned"
  /\ abortedAt[u].idx + 1 < abortedAt[u].total

\* C5: a unit whose signal is set after step k returned and before step k + 1
\* begins records step k in its memory, dispatches neither step k + 1 nor any
\* later step, and its execute ends unsuccessful, never Completed.
C5_AbortBetweenSteps ==
  \A u \in Units : AbortedBetweenSteps(u) =>
    \/ pc[u] = "stepReturned" /\ idx[u] = abortedAt[u].idx
    \/ /\ pc[u] = "idle"
       /\ result[u].state = "resolved" /\ ~result[u].success
       /\ "aborted" \in Range(events[u])
       /\ Last(events[u]) # "complete"
       /\ memory[u] # <<>>
       /\ Last(memory[u]).result.stepNumber = abortedAt[u].idx + 1
       /\ Last(memory[u]).step = decomposeTask(task[u])[abortedAt[u].idx + 1]

C5_Witness ==
  \E u \in Units :
    /\ AbortedBetweenSteps(u)
    /\ pc[u] = "idle"
    /\ ~result[u].success
    /\ Last(memory[u]).result.stepNumber = abortedAt[u].idx + 1

\* C6: a unit whose signal is set while the tool call of a step is in flight,
\* the last step included, dispatches no further step and does not end
\* Completed.
C6_AbortDuringToolCall ==
  \A u \in Units : abortedAt[u].pc = "tool" =>
    /\ pc[u] = "tool" => idx[u] = abortedAt[u].idx
    /\ pc[u] # "summarize"
    /\ pc[u] = "idle" => ~result[u].success

\* C7: the steps of a unit run one after the other in decomposition order:
\* while step i + 1 is at its tool or has just returned, exactly the results
\* of steps 1..i are in results and their records are the latest entries of
\* the memory; results[j] is the result of steps[j] with stepNumber j.
C7_StepsSequential ==
  \A u \in Units :
    /\ pc[u] \in {"tool", "stepReturned"} =>
         /\ Len(results[u]) = idx[u]
         /\ idx[u] < Len(steps[u])
         /\ steps[u] = decomposeTask(task[u])
    /\ pc[u] = "stepReturned" =>
         cur[u].stepNumber = idx[u] + 1 /\ cur[u].step = steps[u][idx[u] + 1]
    /\ Len(results[u]) <= Len(memory[u])
    /\ \A j \in 1..Len(results[u]) :
         /\ results[u][j].stepNumber = j
         /\ results[u][j].step = decomposeTask(task[u])[j]
         /\ memory[u][Len(memory[u]) - Len(results[u]) + j].result = results[u][j]

C7_Witness ==
  \E u \in Units :
    /\ pc[u] = "tool" /\ idx[u] = 1
    /\ Len(results[u]) = 1
    /\ Last(memory[u]).result = results[u][1]

\* C8: a unit whose signal is not set runs and records every decomposed step
\* whatever steps fail, and its execute ends Completed: complete is emitted
\* and the result has success true and one entry per step.
C8_StepFailuresTolerated ==
  \A u \in Units : ~aborted[u] =>
    /\ "error" \notin Range(events[u])
    /\ pc[u] = "idle" /\ events[u] # <<>> =>
         /\ Last(events[u]) = "complete"
         /\ result[u].state = "resolved" /\ result[u].success
         /\ Len(result[u].results) = Len(decomposeTask(task[u]))
         /\ Len(memory[u]) = Count(events[u], "start") * Len(decomposeTask(task[u]))

C8_Witness ==
  \E u \in Units :
    /\ ~aborted[u] /\ pc[u] = "idle" /\ result[u].state = "resolved"
    /\ result[u].success
    /\ \E j \in 1..Len(result[u].results) : result[u].results[j].error = "validation"
    /\ \E j \in 1..Len(result[u].results) : result[u].results[j].error = "tool threw"
    /\ \E j \in 1..Len(result[u].results) :
         ~result[u].results[j].success /\ result[u].results[j].error = "none"

\* C9: the array executeConcurrent resolves with is in input order: entry i is
\* the outcome of the unit created for the i-th created task, in whatever
\* order the units finished.
C9_OutcomesInInputOrder ==
  /\ \A i \in 1..Len(batch.out) :
       batch.out[i] # Pending =>
         /\ batch.out[i].subAgentId = batch.units[i]
         /\ batch.out[i].task = batch.tasks[i]
         /\ batch.out[i] = result[batch.units[i]]
  /\ batch.pc = "settled" =>
       /\ Len(batch.out) = Len(batch.units)
       /\ \A i \in 1..Len(batch.out) : batch.out[i] # Pending

C9_Witness ==
  /\ batch.pc = "settled"
  /\ Len(batch.units) = 2
  /\ batch.settled = <<batch.units[2], batch.units[1]>>
  /\ batch.out[1].subAgentId = batch.units[1]
  /\ batch.out[2].subAgentId = batch.units[2]

\* C10: executeConcurrent over n task infos with k free slots (k = maxSubAgents
\* less the units in the Map) creates units for exactly the first min(n, k)
\* task infos and has exactly min(n, k) outcomes to return.
C10_BatchCreatesFirstMinNK ==
  [][batch.pc = "none" /\ batch'.pc = "created" =>
       LET k == Max(0, maxSubAgents - Cardinality(subAgents))
           c == Min(Len(batch'.tasks), k)
       IN /\ Len(batch'.units) = c
          /\ Len(batch'.out) = c
          /\ nextId' = nextId + c]_vars


\* C11: a batch never throws on a unit's failure and siblings are
\* independent.  executeConcurrent resolves once every unit's execute() has
\* resolved, with one fulfilled outcome per created unit, at the unit's index;
\* and a unit on which abort() was not called ends by itself whatever its
\* siblings did: either it succeeds with a result for every step of its own
\* decomposition, or its own tool call threw; it never ends interrupted.
C11_BatchSiblingsIndependent ==
  /\ Len(batch.out) = Len(batch.units)
  /\ batch.pc = "settled" =>
       \A j \in 1..Len(batch.units) :
         /\ batch.out[j].state = "resolved"
         /\ batch.out[j].subAgentId = batch.units[j]
  /\ (batch.pc = "running" /\ \A j \in 1..Len(batch.units) : pc[batch.units[j]] = "idle")
       => \A j \in 1..Len(batch.units) : batch.out[j] # Pending
  /\ \A j \in 1..Len(batch.units) :
       (batch.out[j] # Pending /\ ~aborted[batch.units[j]]) =>
          \/ /\ batch.out[j].success
             /\ batch.out[j].steps = decomposeTask(task[batch.units[j]])
             /\ Len(batch.out[j].results) = Len(batch.out[j].steps)
          \/ /\ ~batch.out[j].success
             /\ batch.out[j].error = "step threw"

\* a settled batch of two units: one was aborted and ended Failed, its
\* sibling succeeded with all its steps
C11_Witness ==
  /\ batch.pc = "settled"
  /\ \E i, j \in 1..Len(batch.units) :
       /\ i # j
       /\ aborted[batch.units[i]] /\ ~batch.out[i].success
       /\ ~aborted[batch.units[j]] /\ batch.out[j].success
       /\ Len(batch.out[j].results) = Len(decomposeTask(task[batch.units[j]]))
       /\ Len(batch.out[j].results) >= 1

\* C12: abortAll sets the cancellation signal of every unit that is in the
\* manager's Map when it is called and returns without waiting: no unit's
\* pipeline position or promise changes in the call (under SpecAbortAll
\* abortAll is the only caller of abort(), so a step that counts abort()
\* calls is an abortAll call).
C12_AbortAllSignalsEveryActiveUnit ==
  [][nAborts' # nAborts =>
       /\ \A u \in subAgents : aborted'[u]
       /\ pc' = pc
       /\ result' = result
       /\ batch' = batch]_vars

\* after one abortAll over two running units: both signals are set and
\* neither execute() has resolved
C12_Witness ==
  \E u, v \in Units :
    /\ u # v
    /\ aborted[u] /\ aborted[v]
    /\ nAborts = 2
    /\ pc[u] \in {"decompose", "tool", "stepReturned", "summarize"}
    /\ pc[v] \in {"decompose", "tool", "stepReturned", "summarize"}
    /\ result[u] = Pending /\ result[v] = Pending

\* C13: a managed unit leaves the Map on its terminal transition.  In the
\* step in which a unit's execute() resolves, with success or failure, the
\* unit is not in the Map afterwards and createSubAgent is not at capacity.
C13_RemovedWhenExecuteResolves ==
  [][\A u \in Units :
       (result'[u] # result[u] /\ result'[u].state = "resolved") =>
          /\ u \notin subAgents'
          /\ ~(activeSubAgents' >= maxSubAgents')]_vars

\* a unit's execute() has resolved, the unit is out of the Map, and a
\* createSubAgent after it took the slot
C13_Witness ==
  \E u, v \in Units :
    /\ u < v
    /\ result[u].state = "resolved"
    /\ u \notin subAgents
    /\ slotReleases[u] = 1
    /\ v \in subAgents
    /\ activeSubAgents = maxSubAgents
    /\ lastCreate = "created"


\* the step is an addMessage call: the history has one more message
Appended == Len(enhancedMemory'.llmMessages) = Len(enhancedMemory.llmMessages) + 1

\* the step ran compressMemory, inside addMessage or called directly
Compressed ==
  enhancedMemory'.contextStats.compressionCount
    # enhancedMemory.contextStats.compressionCount

\* the summaries that a direct compressMemory call made: no message was
\* added at their time
DirectSummaries ==
  {j \in 1..Len(enhancedMemory.mediumTerm) :
     \A i \in 1..Len(enhancedMemory.llmMessages) :
       enhancedMemory.llmMessages[i].timestamp # enhancedMemory.mediumTerm[j].timestamp}

\* C14: after every addMessage, also one that triggers a compression (and
\* after a direct compressMemory), contextStats.totalTokens is the sum of
\* tokenCount over the messages now in shortTerm.
C14_TotalTokensIsShortTermSum ==
  enhancedMemory.contextStats.totalTokens = SumTokens(enhancedMemory.shortTerm)

\* right after the 101st addMessage compressed: 20 messages are kept and the
\* total is theirs, less than what was added in all
C14_Witness ==
  /\ Len(enhancedMemory.llmMessages) = 101
  /\ enhancedMemory.contextStats.compressionCount = 1
  /\ Len(enhancedMemory.shortTerm) = 20
  /\ enhancedMemory.contextStats.totalTokens > 0
  /\ enhancedMemory.contextStats.totalTokens < SumTokens(enhancedMemory.llmMessages)

\* C15: an addMessage compresses exactly when, with the message inserted,
\* the tokens of shortTerm exceed tokenThreshold or its length exceeds
\* messageThreshold; otherwise mediumTerm is unchanged and shortTerm is the
\* old one with the message appended.
C15_CompressionExactlyOnThreshold ==
  [][Appended =>
       LET new == enhancedMemory'.llmMessages[Len(enhancedMemory'.llmMessages)]
           tokens == SumTokens(enhancedMemory.shortTerm) + new.tokenCount
           length == Len(enhancedMemory.shortTerm) + 1
           triggers == tokens > 3680 \/ length > 100
       IN /\ triggers <=>
               /\ Compressed
               /\ Len(enhancedMemory'.mediumTerm) = Len(enhancedMemory.mediumTerm) + 1
          /\ ~triggers =>
               /\ enhancedMemory'.mediumTerm = enhancedMemory.mediumTerm
               /\ enhancedMemory'.shortTerm = Append(enhancedMemory.shortTerm, new)]_vars

\* one store has compressed inside an addMessage once on the length alone
\* (101 messages, few tokens) and once on the tokens alone (few messages)
C15_Witness ==
  \E i, j \in 1..Len(enhancedMemory.mediumTerm) \ DirectSummaries :
    /\ enhancedMemory.mediumTerm[i].originalCount > 100
    /\ enhancedMemory.mediumTerm[i].originalTokens <= 3680
    /\ enhancedMemory.mediumTerm[j].originalCount <= 100
    /\ enhancedMemory.mediumTerm[j].originalTokens > 3680

\* C16: right after any compressMemory shortTerm has at most 20 messages,
\* whatever its length before.
C16_ShortTermWithinRetention ==
  [][Compressed => Len(enhancedMemory'.shortTerm) <= 20]_vars

\* right after a compressMemory of a shortTerm that was longer than 20
C16_Witness ==
  /\ enhancedMemory.mediumTerm # <<>>
  /\ enhancedMemory.mediumTerm[Len(enhancedMemory.mediumTerm)].originalCount > 20
  /\ enhancedMemory.mediumTerm[Len(enhancedMemory.mediumTerm)].timestamp = driver.clock
  /\ Len(enhancedMemory.shortTerm) = 20

C18_NoImmediateRetrigger ==
  [][Compressed => ~shouldCompress(enhancedMemory')]_vars


\* what getLLMContext returns of a message of the history
Returned(msg) ==
  [role |-> msg.role, content |-> msg.content, timestamp |-> msg.timestamp]

\* C19: getLLMContext(maxTokens) returns, in chronological order, the
\* longest suffix of the history (llmMessages) whose tokenCounts sum to at
\* most maxTokens: the messages are the last k of the history in order,
\* totalTokens is their sum and within maxTokens, and either k is the whole
\* history or the next older message would exceed maxTokens.
C19_ContextIsLongestSuffix ==
  llmContext # NoContext =>
    LET r == llmContext.value
        history == enhancedMemory.llmMessages
        k == Len(r.messages)
        n == Len(history)
    IN /\ k <= n
       /\ r.messageCount = k
       /\ \A j \in 1..k : r.messages[j] = Returned(history[n - k + j])
       /\ r.totalTokens = SumTokens(SubSeq(history, n - k + 1, n))
       /\ r.totalTokens <= llmContext.maxTokens
       /\ k = n \/ r.totalTokens + history[n - k].tokenCount > llmContext.maxTokens

\* a context that the budget cut: some but not all of the history
C19_Witness ==
  /\ llmContext # NoContext
  /\ Len(llmContext.value.messages) >= 2
  /\ Len(llmContext.value.messages) < Len(enhancedMemory.llmMessages)

\* the part of a getLLMContext result that is the context window
Window(r) ==
  [messages |-> r.messages, totalTokens |-> r.totalTokens,
   messageCount |-> r.messageCount]

\* in a step that compresses, the store as it is when compressMemory begins:
\* in an addMessage, the store with the message pushed and counted
BeforeCompression ==
  IF Appended
  THEN LET new == enhancedMemory'.llmMessages[Len(enhancedMemory'.llmMessages)]
       IN pushMessage(enhancedMemory, new, new.timestamp)
  ELSE enhancedMemory

\* C20: the context window is taken from the full history, not from
\* shortTerm: a compression leaves the result of getLLMContext(maxTokens)
\* unchanged, for every maxTokens.
C20_CompressionKeepsContextResult ==
  [][Compressed =>
       \A maxTokens \in MaxTokensValues :
         getLLMContext(enhancedMemory', maxTokens)
           = getLLMContext(BeforeCompression, maxTokens)]_vars

\* What a compression does keep of the result: the messages, totalTokens and
\* messageCount, for every maxTokens; the compressionRatio, a quotient by
\* contextStats.totalTokens, is the field that changes.
ContextWindowKeptByCompression ==
  [][Compressed =>
       \A maxTokens \in MaxTokensValues :
         Window(getLLMContext(enhancedMemory', maxTokens))
           = Window(getLLMContext(BeforeCompression, maxTokens))]_vars

\* after a compression, getLLMContext has returned a message that shortTerm
\* no longer holds
DroppedMessageReturned ==
  /\ llmContext # NoContext
  /\ enhancedMemory.contextStats.compressionCount >= 1
  /\ \E j \in 1..Len(llmContext.value.messages) :
       \A i \in 1..Len(enhancedMemory.shortTerm) :
         enhancedMemory.shortTerm[i].timestamp
           # llmContext.value.messages[j].timestamp

\* C22: mediumTerm is append-only: no addMessage or compressMemory call
\* shrinks it or changes or reorders the summaries already in it, and each
\* compression adds exactly one summary at the end.
C22_MediumTermAppendOnly ==
  [][LET old == enhancedMemory.mediumTerm
         new == enhancedMemory'.mediumTerm
     IN /\ Len(new) = Len(old) + (IF Compressed THEN 1 ELSE 0)
        /\ \A j \in 1..Len(old) : new[j] = old[j]]_vars

\* a compression has just added a third summary behind two of other times
C22_Witness ==
  /\ Len(enhancedMemory.mediumTerm) = 3
  /\ enhancedMemory.mediumTerm[3].timestamp = driver.clock
  /\ enhancedMemory.mediumTerm[1].timestamp < enhancedMemory.mediumTerm[2].timestamp
  /\ enhancedMemory.mediumTerm[1].originalCount
       # enhancedMemory.mediumTerm[2].originalCount

\* C23: compressMemory summarizes the shortTerm as it is before truncation
\* and keeps the most recent messages: the new summary's originalCount is the
\* length of the shortTerm before and its originalTokens the totalTokens
\* before, and shortTerm afterwards is the last min(20, n) messages of the
\* shortTerm before, in the same order.
C23_SummaryOfShortTermBeforeTruncation ==
  [][Compressed =>
       LET before == BeforeCompression
           n == Len(before.shortTerm)
           summary == enhancedMemory'.mediumTerm[Len(enhancedMemory'.mediumTerm)]
       IN /\ summary.originalCount = n
          /\ summary.originalTokens = before.contextStats.totalTokens
          /\ summary.summary.originalCount = n
          /\ Len(enhancedMemory'.shortTerm) = Min(20, n)
          /\ \A j \in 1..Min(20, n) :
               enhancedMemory'.shortTerm[j] = before.shortTerm[n - Min(20, n) + j]]_vars

\* one store after a compression of fewer than 20 messages that cut none
\* and a later one of 101 messages that cut 81 of them
C23_Witness ==
  \E i, j \in 1..Len(enhancedMemory.mediumTerm) :
    /\ i < j
    /\ enhancedMemory.mediumTerm[i].originalCount \in 1..19
    /\ enhancedMemory.mediumTerm[i].originalTokens > 0
    /\ enhancedMemory.mediumTerm[j].originalCount = 101
    /\ Len(enhancedMemory.shortTerm) = 20
    /\ enhancedMemory.mediumTerm[j].timestamp = driver.clock

\* C26: addMessage never fails and coerces malformed input: for any message
\* object the call returns with exactly one new entry stored at the end of
\* shortTerm; a message without role is stored with role system and enters
\* the history used for the context window; a message without content gets
\* tokenCount 0 and leaves totalTokens unchanged.
C26_AppendNeverFails ==
  [][\A message \in MessageKinds :
       AddMessage(message) =>
         LET short == enhancedMemory'.shortTerm
             n == Len(short)
             history == enhancedMemory'.llmMessages
         IN /\ ~driver'.threw
            /\ n >= 1
            /\ short[n].timestamp = driver'.clock
            /\ \A j \in 1..(n - 1) :
                 \E i \in 1..Len(enhancedMemory.shortTerm) :
                   short[j] = enhancedMemory.shortTerm[i]
            /\ message.role = "" =>
                 /\ short[n].role = "system"
                 /\ history # <<>>
                 /\ history[Len(history)] = short[n]
            /\ message.content = 0 =>
                 /\ short[n].tokenCount = 0
                 /\ enhancedMemory'.contextStats.totalTokens
                      = enhancedMemory.contextStats.totalTokens]_vars

\* What does hold of every addMessage call that returns: the entry is the
\* last of shortTerm, a missing role is stored as system and enters the
\* history, a missing content counts 0 tokens, and totalTokens is the sum
\* over the shortTerm the call leaves.
AppendCoercesWhenItReturns ==
  [][\A message \in MessageKinds :
       (AddMessage(message) /\ ~driver'.threw) =>
         LET short == enhancedMemory'.shortTerm
             n == Len(short)
             history == enhancedMemory'.llmMessages
         IN /\ n >= 1
            /\ short[n].timestamp = driver'.clock
            /\ message.role = "" =>
                 /\ short[n].role = "system"
                 /\ history[Len(history)] = short[n]
            /\ message.content = 0 => short[n].tokenCount = 0
            /\ enhancedMemory'.contextStats.totalTokens = SumTokens(short)]_vars

\* an addMessage call has thrown and left the store as it was
AppendThrew ==
  /\ driver.threw
  /\ enhancedMemory.shortTerm # <<>>
  /\ enhancedMemory.shortTerm[Len(enhancedMemory.shortTerm)].timestamp < driver.clock

\* the 101st message has neither role nor content: the call compressed and
\* totalTokens is the sum over the 20 messages kept
EmptyAppendCompressed ==
  /\ ~driver.threw
  /\ enhancedMemory.shortTerm # <<>>
  /\ enhancedMemory.shortTerm[Len(enhancedMemory.shortTerm)].content = 0
  /\ enhancedMemory.mediumTerm # <<>>
  /\ enhancedMemory.mediumTerm[Len(enhancedMemory.mediumTerm)].timestamp = driver.clock
  /\ enhancedMemory.mediumTerm[Len(enhancedMemory.mediumTerm)].originalTokens
       > enhancedMemory.contextStats.totalTokens

\* the counters of contextStats
Counters(m) ==
  [totalTokens |-> m.contextStats.totalTokens,
   userMessages |-> m.contextStats.userMessages,
   assistantMessages |-> m.contextStats.assistantMessages,
   toolCalls |-> m.contextStats.toolCalls,
   compressionCount |-> m.contextStats.compressionCount]

\* C21: the export/import round trip is lossless: for a store in any state
\* reached by appends and compressions, importSession(exportSession()) on a
\* fresh store gives a store whose shortTerm, mediumTerm, longTerm and
\* counters (totalTokens, per-role counts, compressionCount) are the
\* source's.
C21_RoundTripLossless ==
  newMemory.imported =>
    /\ newMemory.store.shortTerm = enhancedMemory.shortTerm
    /\ newMemory.store.mediumTerm = enhancedMemory.mediumTerm
    /\ newMemory.store.longTerm = enhancedMemory.longTerm
    /\ Counters(newMemory.store) = Counters(enhancedMemory)

\* a store that has compressed, holds messages of two roles and a longTerm
\* entry, has been imported by a store created later
C21_Witness ==
  /\ newMemory.imported
  /\ newMemory.store.contextStats.compressionCount >= 1
  /\ newMemory.store.contextStats.userMessages >= 1
  /\ newMemory.store.contextStats.toolCalls >= 1
  /\ newMemory.store.contextStats.totalTokens > 0
  /\ newMemory.store.longTerm # {}
  /\ newMemory.store.mediumTerm # <<>>
  /\ newMemory.store.shortTerm # <<>>

\* the params of a step lack a key the schema of the step's tool requires, or
\* the tool is not registered
Rejected(step) ==
  \/ selectToolForStep(step) \notin ToolNames
  \/ \E key \in RequiredParams(selectToolForStep(step)) :
       key \notin parseStepParams(step)

\* C24: validation precedes every execute of a tool: a tool call is in
\* flight only for a step whose tool exists and whose params hold every
\* required key; a step that lacks one is reported as a failed step result
\* that no tool outcome made, and the step loop goes on (no exception leaves
\* it: execute is still pending when such a result is returned).
C24_ValidationPrecedesExecute ==
  \A u \in Units :
    /\ pc[u] = "tool" => ~Rejected(StepAt(steps[u], idx[u]))
    /\ \A j \in 1..Len(results[u]) :
         Rejected(results[u][j].step) =>
           /\ ~results[u][j].success
           /\ results[u][j].error = "validation"
    /\ (pc[u] = "stepReturned" /\ Rejected(cur[u].step)) =>
         /\ ~cur[u].success
         /\ cur[u].error = "validation"
         /\ result[u] = Pending

\* a unit whose first three steps failed validation and were recorded, and
\* whose fourth step passed it and has its tool call in flight
C24_Witness ==
  \E u \in Units :
    /\ pc[u] = "tool"
    /\ Len(results[u]) = 3
    /\ \A j \in 1..3 : Rejected(results[u][j].step) /\ ~results[u][j].success
    /\ ~Rejected(StepAt(steps[u], idx[u]))
    /\ result[u] = Pending

\* unit u executes, fails or is aborted in this step
Acts(u) ==
  <<pc[u], aborted[u], events[u], results[u], result[u], memory[u]>>'
    # <<pc[u], aborted[u], events[u], results[u], result[u], memory[u]>>

\* C30: units are isolated: a step in which a unit executes, fails or is
\* aborted leaves the memory of every other unit and the memory of the
\* parent agent unchanged, and an append of the parent to its own memory
\* leaves the memory of every unit unchanged, under any interleaving of the
\* units of a batch.
C30_UnitMemoryIsolated ==
  [][(\A u \in Units :
        Acts(u) =>
          /\ enhancedMemory' = enhancedMemory
          /\ \A v \in Units \ {u} :
               (memory'[v] # memory[v]) => (Acts(v) /\ pc[v] = "stepReturned"))
     /\ (\A u \in Units :
           (memory'[u] # memory[u]) => (pc[u] = "stepReturned"))
     /\ ((enhancedMemory' # enhancedMemory) => (memory' = memory))]_vars

\* two units of one batch have each recorded a step in their own memory,
\* one a failed step and one a successful one, one of them was aborted, and
\* the parent has appended to its memory meanwhile
C30_Witness ==
  \E u, v \in Units :
    /\ u # v
    /\ memory[u] # <<>>
    /\ memory[v] # <<>>
    /\ ~memory[u][1].result.success
    /\ memory[v][1].result.success
    /\ \E w \in {u, v} : aborted[w]
    /\ enhancedMemory.shortTerm # <<>>

\* the units inside their execution pipeline: execute has started and has
\* not resolved
InPipeline == {u \in Units : pc[u] \in {"decompose", "tool", "stepReturned", "summarize"}}

\* C29: the manager limits the concurrency: at no time are more than
\* maxSubAgents units inside their execution pipeline, units on which abort
\* was called while a tool call is in flight included.
C29_PipelineWithinCeiling == Cardinality(InPipeline) <= maxSubAgents

\* C27: a unit's config is copied from the parent configuration at
\* creation: when the parent config sets timeout or maxConcurrency, the
\* unit's config carries those values, and no execute or abort changes it.
C27_ConfigCopiedFromParent ==
  \A u \in Units :
    pc[u] # "none" =>
      /\ parentConfig.timeout # 0 => config[u].timeout = parentConfig.timeout
      /\ parentConfig.maxConcurrency # 0 =>
           config[u].maxConcurrency = parentConfig.maxConcurrency

\* What does hold: maxConcurrency and the analyzer switch are the parent's,
\* timeout is 30000 and sandbox true whatever the parent sets, and no
\* operation on the unit changes its config.
ConfigFixedAtCreation ==
  [][\A u \in Units :
       /\ pc'[u] # "none" =>
            /\ config'[u].timeout = 30000
            /\ config'[u].sandbox
            /\ config'[u].enableLLM = parentConfig.enableLLM
            /\ parentConfig.maxConcurrency # 0 =>
                 config'[u].maxConcurrency = parentConfig.maxConcurrency
       /\ pc[u] # "none" => config'[u] = config[u]]_vars

\* C25: when the analyzer fails during a unit's decomposition, the unit's
\* step list is the rule-based decomposition of its task, and the failure
\* neither throws out of decomposition nor fails the unit.
C25_AnalyzerFailureFallsBackToRules ==
  [][\A u \in Units :
       DecomposeReturnLLM(u, "fails") =>
         /\ steps'[u] = ruleBasedDecomposition(task[u])
         /\ aborted[u] \/ result'[u] = Pending]_vars

\* What does hold when the analyzer fails: the step list is the task itself
\* as one step, and the unit goes on unless it was aborted meanwhile; the
\* rule-based list is used when the answer is the JSON text null.
AnalyzerFailureYieldsTaskAsStep ==
  [][\A u \in Units :
       /\ DecomposeReturnLLM(u, "fails") =>
            /\ steps'[u] = <<task[u]>>
            /\ aborted[u] \/ result'[u] = Pending
       /\ DecomposeReturnLLM(u, "null") =>
            steps'[u] = ruleBasedDecomposition(task[u])]_vars

\* C28: a running unit whose tool call has not returned when its timeout
\* elapses is cancelled as by abort() and leaves the manager's active set.
C28_TimeoutCancelsUnit ==
  \A u \in Units :
    (timedOut[u] /\ pc[u] = "tool") => (aborted[u] /\ u \notin subAgents)

\* C34: the manager's active count always equals the number of registered
\* units and is never negative: activeSubAgents = size of the subAgents Map
\* >= 0, so getStatus().totalSubAgents is the length of
\* getStatus().subAgents.
C34_CountEqualsRegistered ==
  /\ activeSubAgents = Cardinality(subAgents)
  /\ activeSubAgents >= 0

\* seq is the end of whole, in order
IsSuffix(seq, whole) ==
  /\ Len(seq) <= Len(whole)
  /\ \A j \in 1..Len(seq) : seq[j] = whole[Len(whole) - Len(seq) + j]

\* C37 as claimed: after any sequence of addMessage calls, with any role
\* values, and compressions, shortTerm is a suffix of llmMessages.
C37_ShortTermSuffixOfHistory ==
  IsSuffix(enhancedMemory.shortTerm, enhancedMemory.llmMessages)

\* the messages of shortTerm that were stored with one of the four roles
Filed(shortTerm) == SelectSeq(shortTerm, LAMBDA msg : msg.role \in LLMRoles)

\* C37 amended: after any sequence of addMessage calls, with any role
\* values, and compressions, the messages of shortTerm stored with role
\* user, assistant, system or tool (a missing role is stored as system) are,
\* in order, a suffix of llmMessages; a message stored with another role is
\* kept in shortTerm and is not in llmMessages.
C37_FiledShortTermSuffixOfHistory ==
  /\ IsSuffix(Filed(enhancedMemory.shortTerm), enhancedMemory.llmMessages)
  /\ \A j \in 1..Len(enhancedMemory.shortTerm) :
       enhancedMemory.shortTerm[j].role \notin LLMRoles =>
         \A i \in 1..Len(enhancedMemory.llmMessages) :
           enhancedMemory.llmMessages[i] # enhancedMemory.shortTerm[j]

\* after a compression that cut the shortTerm, it holds a message of another
\* role between messages of the four roles, and the history is longer
C37_Witness ==
  /\ enhancedMemory.contextStats.compressionCount >= 1
  /\ Len(enhancedMemory.shortTerm) = 20
  /\ Len(Filed(enhancedMemory.shortTerm)) \in 1..19
  /\ Len(enhancedMemory.llmMessages) > 20
  /\ enhancedMemory.shortTerm[20].role \in LLMRoles

\* C35: after WkAgent.cleanup() has emptied shortTerm and mediumTerm,
\* contextStats.totalTokens is the sum of the token counts of the (empty)
\* shortTerm, and an append after it compresses only when the tokens or the
\* length of shortTerm, with the message inserted, exceed their thresholds,
\* as on a fresh store.
C35_CleanupKeepsTokenSum ==
  [][/\ Cleanup =>
          enhancedMemory'.contextStats.totalTokens
            = SumTokens(enhancedMemory'.shortTerm)
     /\ (Appended /\ Compressed) =>
          LET new == enhancedMemory'.llmMessages[Len(enhancedMemory'.llmMessages)]
          IN \/ SumTokens(enhancedMemory.shortTerm) + new.tokenCount > tokenThreshold
             \/ Len(enhancedMemory.shortTerm) + 1 > messageThreshold]_vars

\* what the code does: cleanup leaves every counter of contextStats as it was
CleanupKeepsCounters ==
  [][Cleanup => enhancedMemory'.contextStats = enhancedMemory.contextStats]_vars

\* a store that was emptied while its counter stood above zero
CleanupLeftStaleTotal ==
  /\ enhancedMemory.shortTerm = <<>>
  /\ enhancedMemory.contextStats.totalTokens > 0

\* what C36 compares of a store: shortTerm, mediumTerm, the history and the
\* counters
Snapshot(m) == <<m.shortTerm, m.mediumTerm, m.llmMessages, m.contextStats>>

\* C36: after a store has imported the export of another, an addMessage or a
\* compressMemory on the exporting store leaves the importing store's
\* shortTerm, mediumTerm, history and counters unchanged, and an addMessage
\* on the importing store leaves the exporting store's unchanged.
C36_ExportIsIndependentSnapshot ==
  [][/\ ((\E message \in MessageKinds : SourceAddMessage(message))
           \/ SourceCompressMemory) =>
          Snapshot(newMemory'.store) = Snapshot(newMemory.store)
     /\ (\E message \in MessageKinds : CopyAddMessage(message)) =>
          Snapshot(enhancedMemory') = Snapshot(enhancedMemory)]_vars

\* what the code keeps apart: the counters, which importSession copies into
\* an object of the importing store
CountersAreCopied ==
  [][/\ ((\E message \in MessageKinds : SourceAddMessage(message))
           \/ SourceCompressMemory) =>
          newMemory'.store.contextStats = newMemory.store.contextStats
     /\ (\E message \in MessageKinds : CopyAddMessage(message)) =>
          enhancedMemory'.contextStats = enhancedMemory.contextStats]_vars

\* the importing store holds a message that was added to the exporting store
\* after the import and is not counted in its own totalTokens
CopyShowsLaterMessage ==
  /\ newMemory.imported
  /\ "shortTerm" \in newMemory.aliased
  /\ newMemory.store.shortTerm # <<>>
  /\ newMemory.store.contextStats.totalTokens
       < SumTokens(newMemory.store.shortTerm)

\* C33: if every tool call and analyzer call returns, every unit on which
\* execute is called reaches a terminal outcome, and once its execute has
\* resolved it is absent from the manager's Map, whether or not abort is
\* called at any point.
C33_ExecutedUnitResolvesAndLeaves ==
  \A u \in Units :
    /\ (u \in InPipeline) ~> (pc[u] = "idle" /\ result[u] # Pending)
    /\ [](pc[u] = "idle" /\ Count(events[u], "start") > 0 =>
            /\ result[u] # Pending
            /\ Last(events[u]) \in Terminal
            /\ u \notin subAgents)

\* a unit that was aborted during the tool call of its first step has
\* resolved with the interruption error and is gone from the Map
C33_Witness ==
  \E u \in Units :
    /\ pc[u] = "idle"
    /\ result[u] # Pending
    /\ u \notin subAgents
    /\ Len(steps[u]) > 1
    /\ aborted[u]
    /\ abortedAt[u].pc = "tool"
    /\ Last(events[u]) = "error"

\* C31: when the TaskTool's manager is at its ceiling, TaskTool.execute
\* creates and runs no unit and fails at once with the capacity error: no
\* lifecycle event is emitted and no Map or counter changes; the agent's
\* task tool then reports { success: false, error }.
C31_CapacityErrorThroughTaskTool ==
  [][(\A t \in lim.tasks :
        TaskToolExecute(t) /\ taskTool.activeSubAgents >= maxSubAgents =>
          /\ taskTool'.promise = "rejected"
          /\ nextId' = nextId
          /\ pc' = pc
          /\ events' = events
          /\ taskTool'.subAgents = taskTool.subAgents
          /\ taskTool'.activeSubAgents = taskTool.activeSubAgents
          /\ subAgents' = subAgents
          /\ activeSubAgents' = activeSubAgents)
     /\ (taskTool.promise = "rejected" /\ taskTool'.promise # "rejected" =>
          /\ taskTool'.report = [success |-> FALSE, error |-> "capacity error"]
          /\ unitVars' = unitVars)]_vars

\* the task tool has reported the capacity error while the TaskTool's manager
\* holds as many running units as the ceiling allows
C31_Witness ==
  /\ taskTool.report = [success |-> FALSE, error |-> "capacity error"]
  /\ taskTool.activeSubAgents = maxSubAgents
  /\ Cardinality(taskTool.subAgents) = maxSubAgents
  /\ \A u \in taskTool.subAgents : u \in InPipeline

\* the units registered with one of the agent's two managers
LiveSubAgents == subAgents \cup taskTool.subAgents

\* C38: at any time the number of live SubAgents of one WkAgent, those of
\* its task tool and those of createSubAgent / executeSubTasksConcurrently
\* together, is at most maxSubAgents, and getSubAgentStatus() counts all of
\* them.
C38_CeilingBoundsAllSubAgents ==
  /\ Cardinality(LiveSubAgents) <= maxSubAgents
  /\ getSubAgentStatus.totalSubAgents = Cardinality(LiveSubAgents)
  /\ getSubAgentStatus.subAgents = LiveSubAgents

\* what the code keeps: each of the two managers stays within the ceiling,
\* and getSubAgentStatus() reports the agent's own manager
EachManagerWithinCeiling ==
  /\ Cardinality(subAgents) <= maxSubAgents
  /\ Cardinality(taskTool.subAgents) <= maxSubAgents
  /\ getSubAgentStatus.totalSubAgents = Cardinality(subAgents)

\* both managers are full at once
BothManagersFull ==
  /\ Cardinality(subAgents) = maxSubAgents
  /\ Cardinality(taskTool.subAgents) = maxSubAgents

\* C32 as claimed needs a running unit's tool-invocation step to be able to
\* select the Task Adapter: whenever a unit stands at a tool call, the task
\* tool is one of the tools of the registry that the step dispatches from.
C32_StepCanReachTaskAdapter ==
  \A u \in Units : pc[u] = "tool" => "task" \in ToolNames

\* C32 amended: a unit is created and executed through the Task Adapter by
\* the parent agent's task tool; a step of a running SubAgent dispatches
\* only to read, write, edit, grep, bash or glob, never to the Task Adapter,
\* and no step of a unit creates a unit.
C32_OnlyTheAgentSpawnsUnits ==
  [][(\A u \in Units :
        pc[u] = "tool" =>
          selectToolForStep(StepAt(steps[u], idx[u])) \in ToolNames \ {"task"})
     /\ (\A u \in Units :
          pc'[u] = "stepReturned" => cur'[u].tool \in ToolNames \ {"task"})
     /\ (nextId' # nextId =>
          /\ \E t \in lim.tasks : CreateSubAgent(t) \/ TaskToolExecute(t)
          /\ \A u \in Units :
               pc[u] # "none" =>
                 /\ pc'[u] = pc[u]
                 /\ idx'[u] = idx[u]
                 /\ results'[u] = results[u])]_vars

\* the task tool has created a unit while another of its units stood at a
\* tool call, and both now run a step that dispatches to read
C32_Witness ==
  \E u, v \in taskTool.created :
    /\ u < v
    /\ pc[u] = "tool"
    /\ pc[v] = "tool"
    /\ selectToolForStep(StepAt(steps[v], idx[v])) = "read"

====
